---- MODULE Spec2Model ----
(***************************************************************************)
(* Interactive debug console overlay: the log capture-and-distribution     *)
(* pipeline (ConsoleInterceptor, ErrorCapturer, LogStore, OverlayRenderer, *)
(* DebugOverlayManager) as a state machine over the host environment       *)
(* (console method slots, window error handler slots, document).           *)
(*                                                                         *)
(* A call in the program is synchronous and may nest (a console call runs  *)
(* callbacks, which append to a store, which notifies subscribers, which   *)
(* may report a failure through console again).  Each handler is therefore *)
(* a function from world to world (the record built by World below); an    *)
(* action applies one top-level call to the current world.                 *)
(***************************************************************************)
EXTENDS Integers, Sequences, FiniteSets, TLC

VARIABLES
  console,     \* the five global console method slots: level -> function
  onerror,     \* window.onerror slot
  onrejection, \* window.onunhandledrejection slot
  resl,        \* capturing 'error' listeners added to window, in order
  style,       \* the #debug-overlay-styles element: "none" or its theme
  body,        \* overlay containers that are children of document.body (renderer ids)
  icpts,       \* heap of ConsoleInterceptor objects, by identity
  caps,        \* heap of ErrorCapturer objects
  stores,      \* heap of LogStore objects
  rends,       \* heap of OverlayRenderer objects
  mgrs,        \* the DebugOverlayManager objects
  nextEntry,   \* number of LogEntry values created so far (id source)
  budget,      \* per probe listener: how many more times it will throw
  trace,       \* what the last top-level call did, in order
  ret          \* how the last top-level call ended

vars == <<console, onerror, onrejection, resl, style, body, icpts, caps, stores,
          rends, mgrs, nextEntry, budget, trace, ret>>

----------------------------------------------------------------------------
(* Bounds of the model *)

MaxEntries == 3   \* environment calls stop once this many entries exist
MaxThrows  == 2   \* probe listeners throw on at most this many calls in all
(* The call nesting the engine allows: more than a chain of MaxThrows      *)
(* listener failures needs, so that only a loop that feeds itself reaches  *)
(* it.                                                                     *)
MaxStack == 6 * MaxThrows + 12
MaxObjs    == 2   \* objects of one class constructed in one behaviour

(* Program constants *)

DefaultMaxLogs == 1000

LogLevel == {"log", "info", "warn", "error", "debug"}

----------------------------------------------------------------------------
(* Function identities.  Two functions are the same object iff the records *)
(* are equal.                                                              *)

Native(l)     == [k |-> "native", o |-> 0, l |-> l]   \* the host's method
BoundOf(i, l) == [k |-> "bound", o |-> i, l |-> l]    \* console[l].bind(console) made by interceptor i
Wrapper(i, l) == [k |-> "wrapper", o |-> i, l |-> l]  \* arrow installed by interceptor i
CapErr(c)     == [k |-> "caperr", o |-> c, l |-> ""]  \* onerror arrow of capturer c
CapRej(c)     == [k |-> "caprej", o |-> c, l |-> ""]  \* onunhandledrejection arrow of capturer c
HostHandler   == [k |-> "host", o |-> 0, l |-> ""]    \* a handler the page installed itself
NullFn        == [k |-> "null", o |-> 0, l |-> ""]

(* Listener closures *)

Probe(p)     == [k |-> "probe", o |-> p]      \* a listener of the embedding code
MgrAdd(m)    == [k |-> "mgrAdd", o |-> m]     \* (entry) => this._logStore!.addLog(entry)
MgrRender(m) == [k |-> "mgrRender", o |-> m]  \* (logs) => this._overlayRenderer!.renderLogs(logs)
StoreAdd(s)  == [k |-> "storeAdd", o |-> s]   \* (entry) => store.addLog(entry)
MgrFilter(m) == [k |-> "mgrFilter", o |-> m]  \* (levels) => renderLogs(getLogsByLevels(levels))
(* a subscriber of store s that, while budget[p] lasts, calls s.addLog or  *)
(* s.clearLogs from inside its notification                                *)
Reenter(p, s, act) == [k |-> "reenter", o |-> p, s |-> s, act |-> act]

ProbeIds == {1, 2}

(* How many of its next calls each probe fails. *)
ThrowBudgets ==
  {b \in [ProbeIds -> 0..MaxThrows] : b[1] + b[2] <= MaxThrows}

World ==
  [console |-> console, onerror |-> onerror, onrejection |-> onrejection,
   resl |-> resl, style |-> style, body |-> body, icpts |-> icpts, caps |-> caps,
   stores |-> stores, rends |-> rends, mgrs |-> mgrs,
   nextEntry |-> nextEntry, budget |-> budget,
   dom |-> "ready", trace |-> <<>>, exc |-> "none", val |-> "void"]

(* dom is the document as the call finds it: "ready", or still without a   *)
(* body ("noBody": the script runs before <body> is parsed), or without a  *)
(* head ("noHead").                                                        *)
DomStates == {"ready", "noBody", "noHead"}

Emit(w, ev) == [w EXCEPT !.trace = Append(@, ev)]
Throw(w, x) == [w EXCEPT !.exc = x]
Caught(w)   == [w EXCEPT !.exc = "none"]
Ok(w)       == w.exc = "none"

----------------------------------------------------------------------------
(* Sequence helpers *)

RECURSIVE SelectEntries(_, _)
SelectEntries(logs, levels) ==
  IF logs = <<>> THEN <<>>
  ELSE IF Head(logs).level \in levels
       THEN <<Head(logs)>> \o SelectEntries(Tail(logs), levels)
       ELSE SelectEntries(Tail(logs), levels)

LastN(s, n) == IF n >= Len(s) THEN s ELSE SubSeq(s, Len(s) - n + 1, Len(s))

RECURSIVE Without(_, _)
Without(s, x) ==
  IF s = <<>> THEN <<>>
  ELSE IF Head(s) = x THEN Without(Tail(s), x)
       ELSE <<Head(s)>> \o Without(Tail(s), x)

SetAdd(s, x) == IF \E k \in DOMAIN s : s[k] = x THEN s ELSE Append(s, x)

Poisoned(e) == \E k \in DOMAIN e.args : e.args[k] = "poison"

RECURSIVE BeforePoison(_)
BeforePoison(logs) ==
  IF logs = <<>> \/ Poisoned(Head(logs)) THEN <<>>
  ELSE <<Head(logs)>> \o BeforePoison(Tail(logs))

----------------------------------------------------------------------------
(* OverlayRenderer: the parts of the panel the pipeline drives *)

(* The panel geometry along x (y is handled by the same code): left and    *)
(* width are the container's rectangle, drag and resize the two gesture    *)
(* records of _state.  pointer is history of the environment: what the     *)
(* mouse button went down on and has not been released from.               *)
Margin == 20
DefaultWidth == 400
MinWidth == 300

NoDrag == [on |-> FALSE, startX |-> 0, startLeft |-> 0]
NoResize == [on |-> FALSE, startX |-> 0, startWidth |-> 0]

NewRenderer(opts) ==
  [elements |-> FALSE, isVisible |-> FALSE, hidden |-> FALSE,
   filters |-> IF "enabledLevels" \in DOMAIN opts THEN opts.enabledLevels
               ELSE LogLevel,
   active |-> {}, onFilter |-> NullFn,
   rendered |-> <<>>,
   left |-> Margin, width |-> DefaultWidth,
   drag |-> NoDrag, resize |-> NoResize, pointer |-> "up"]

CreateOverlay(w, r) ==
  IF w.rends[r].elements THEN w
  ELSE IF w.dom = "noBody" THEN Throw(w, "TypeError")
  ELSE [w EXCEPT !.rends[r].elements = TRUE, !.rends[r].hidden = TRUE,
                 !.rends[r].active = w.rends[r].filters,
                 !.rends[r].left = Margin, !.rends[r].width = DefaultWidth,
                 !.rends[r].rendered = <<>>, !.body = Append(@, r)]

RendererShow(w, r) ==
  LET w1 == IF w.rends[r].elements THEN w ELSE CreateOverlay(w, r)
  IN IF w1.rends[r].elements /\ ~w1.rends[r].isVisible
     THEN [w1 EXCEPT !.rends[r].hidden = FALSE, !.rends[r].isVisible = TRUE]
     ELSE w1

RendererHide(w, r) ==
  IF w.rends[r].elements /\ w.rends[r].isVisible
  THEN [w EXCEPT !.rends[r].hidden = TRUE, !.rends[r].isVisible = FALSE]
  ELSE w

RendererToggle(w, r) ==
  IF w.rends[r].isVisible THEN RendererHide(w, r) ELSE RendererShow(w, r)

RendererDestroy_KeepVisible(w, r) ==
  IF w.rends[r].elements
  THEN [w EXCEPT !.body = Without(@, r),
                 !.rends[r].elements = FALSE,
                 !.rends[r].left = Margin, !.rends[r].width = DefaultWidth,
                 !.rends[r].rendered = <<>>]
  ELSE w

RendererDestroy(w, r) ==
  LET w1 == IF w.rends[r].elements
            THEN [w EXCEPT !.body = Without(@, r),
                           !.rends[r].elements = FALSE,
                           !.rends[r].left = Margin,
                           !.rends[r].width = DefaultWidth,
                           !.rends[r].rendered = <<>>]
            ELSE w
  IN [w1 EXCEPT !.rends[r].isVisible = FALSE]

(* The mouse listeners: mousedown on the header and on the resize handle,  *)
(* mousemove and mouseup on the document.  x is clientX of the event.      *)
Max(a, b) == IF a >= b THEN a ELSE b

RendererStartDrag(w, r, x) ==
  IF ~w.rends[r].elements THEN w
  ELSE [w EXCEPT !.rends[r].drag =
                   [on |-> TRUE, startX |-> x,
                    startLeft |-> w.rends[r].left]]

RendererStartResize(w, r, x) ==
  IF ~w.rends[r].elements THEN w
  ELSE [w EXCEPT !.rends[r].resize =
                   [on |-> TRUE, startX |-> x,
                    startWidth |-> w.rends[r].width]]

RendererMouseMove(w, r, x) ==
  IF ~w.rends[r].elements THEN w
  ELSE LET dr == w.rends[r].drag
           rs == w.rends[r].resize
           w1 == IF dr.on
                 THEN [w EXCEPT !.rends[r].left = dr.startLeft + (x - dr.startX)]
                 ELSE w
       IN IF rs.on
          THEN [w1 EXCEPT !.rends[r].width =
                            Max(MinWidth, rs.startWidth + (x - rs.startX))]
          ELSE w1

RendererMouseUp(w, r) ==
  IF ~w.rends[r].elements THEN w
  ELSE [w EXCEPT !.rends[r].drag.on = FALSE,
                 !.rends[r].resize.on = FALSE]

(* renderLogs: full replace of the list by the entries passing the active  *)
(* filters; building the element of a poisoned entry throws, leaving the   *)
(* elements built before it in the list.                                   *)
RenderLogs(w, r, logs) ==
  IF ~w.rends[r].elements THEN w
  ELSE LET filtered == SelectEntries(logs, w.rends[r].filters)
           built    == BeforePoison(filtered)
           w1 == [w EXCEPT !.rends[r].rendered = built]
           w2 == Emit(w1, [t |-> "render", r |-> r, logs |-> logs])
       IN IF built = filtered THEN w2 ELSE Throw(w2, "Error")


----------------------------------------------------------------------------
(* The synchronous call graph: console method -> interceptor -> callbacks  *)
(* -> store -> subscribers -> (on a failure) console.error -> ...          *)
(* Exec runs one call, given as a record naming the function and its       *)
(* arguments, at nesting depth d; the functions below call each other      *)
(* through it.                                                             *)

RECURSIVE Exec(_, _, _)

Call(f, args)      == [op |-> "CallFn", f |-> f, args |-> args]
AddLogOf(s, e)     == [op |-> "StoreAddLog", s |-> s, e |-> e]
HandleOf(i, l, as) == [op |-> "HandleConsoleCall", i |-> i, l |-> l, args |-> as]
CaptureOf(cp, kind) == [op |-> "CapNotify", cp |-> cp, kind |-> kind]

Ops(w) == Cardinality({k \in DOMAIN w.trace : w.trace[k].t = "op"})
Calls(w) == Cardinality({k \in DOMAIN w.trace : w.trace[k].t = "call"})

(* A probe listener: records that it ran and with what, then throws while  *)
(* its budget lasts.                                                       *)
RunProbe(w, p, ev) ==
  LET w1 == Emit(w, ev)
  IN IF w1.budget[p] > 0
     THEN Throw([w1 EXCEPT !.budget[p] = @ - 1], "Error")
     ELSE w1

RendererOnFilterChange(w, r, cb) == [w EXCEPT !.rends[r].onFilter = cb]

(* The filter-change callbacks: a listener of the embedding code, or the   *)
(* manager's, which re-queries its store and re-renders.                   *)
InvokeFilterCb(w, cb, levels) ==
  CASE cb.k = "probe" ->
         RunProbe(w, cb.o, [t |-> "filterChange", who |-> cb,
                            levels |-> levels])
    [] cb.k = "mgrFilter" ->
         IF w.mgrs[cb.o].store = 0 THEN w
         ELSE IF w.mgrs[cb.o].rend = 0 THEN Throw(w, "TypeError")
         ELSE RenderLogs(w, w.mgrs[cb.o].rend,
                         IF levels = {} THEN <<>>
                         ELSE SelectEntries(w.stores[w.mgrs[cb.o].store].logs,
                                            levels))

RendererFilterClick_AddOnly(w, r, level) ==
  LET w1 == [w EXCEPT !.rends[r].active = @ \cup {level},
                      !.rends[r].filters = @ \cup {level}]
  IN IF w1.rends[r].onFilter = NullFn THEN w1
     ELSE InvokeFilterCb(w1, w1.rends[r].onFilter, w1.rends[r].filters)

(* _handleFilterClick on the button of a level: the marker is toggled,     *)
(* the set follows the marker, the callback gets the set.                  *)
RendererFilterClick(w, r, level) ==
  LET act == IF level \in w.rends[r].active
             THEN w.rends[r].active \ {level}
             ELSE w.rends[r].active \cup {level}
      w1 == [w EXCEPT !.rends[r].active = act,
                      !.rends[r].filters =
                        IF level \in act THEN @ \cup {level}
                        ELSE @ \ {level}]
  IN IF w1.rends[r].onFilter = NullFn THEN w1
     ELSE InvokeFilterCb(w1, w1.rends[r].onFilter, w1.rends[r].filters)

(* The subscriber closures of a store. *)
InvokeSub(w, sub, c, logs, d) ==
  CASE sub.k = "probe" ->
         RunProbe(w, sub.o, [t |-> "sub", who |-> sub, c |-> c,
                             logs |-> logs])
    [] sub.k = "mgrRender" ->
         IF w.mgrs[sub.o].rend = 0 THEN Throw(w, "TypeError")
         ELSE RenderLogs(w, w.mgrs[sub.o].rend, logs)
    [] sub.k = "reenter" ->
         LET w1 == Emit(w, [t |-> "sub", who |-> sub, c |-> c, logs |-> logs])
             w2 == [w1 EXCEPT !.budget[sub.o] = @ - 1]
         IN IF w1.budget[sub.o] = 0 THEN w1
            ELSE IF sub.act = "addLog"
                 THEN Exec([w2 EXCEPT !.nextEntry = @ + 1],
                           AddLogOf(sub.s, [id |-> w2.nextEntry + 1,
                                            level |-> "info",
                                            args |-> <<"again">>,
                                            stack |-> FALSE]), d + 1)
                 ELSE Exec(w2, [op |-> "StoreClearLogs", s |-> sub.s], d + 1)

(* LogStore._notifyListeners: each listener under its own try/catch; a     *)
(* failure is reported through the console.error installed at that moment. *)
NotifyEach_NoCatch(w, s, c, logs, subs, d) ==
  IF subs = <<>> THEN w
  ELSE LET w1 == Exec(w, [op |-> "InvokeSub", sub |-> Head(subs), c |-> c,
                          logs |-> logs], d + 1)
       IN IF Ok(w1)
          THEN Exec(w1, [op |-> "NotifyEach", s |-> s, c |-> c,
                         logs |-> logs, subs |-> Tail(subs)], d)
          ELSE w1

NotifyEach(w, s, c, logs, subs, d) ==
  IF subs = <<>> THEN w
  ELSE LET w1 == Exec(w, [op |-> "InvokeSub", sub |-> Head(subs), c |-> c,
                          logs |-> logs], d + 1)
           w2 == IF Ok(w1) THEN w1
                 ELSE Exec(Caught(w1),
                           Call(w1.console["error"],
                                <<"listenerError", w1.exc>>), d + 1)
       IN IF Ok(w2)
          THEN Exec(w2, [op |-> "NotifyEach", s |-> s, c |-> c,
                         logs |-> logs, subs |-> Tail(subs)], d)
          ELSE w2

(* An array handed out by the store: its items, and whether it is a new   *)
(* array ("copy") or the store's own buffer object ("buffer").             *)
FreshArray(items) == [ref |-> "copy", items |-> items]

StoreGetAllLogs_Alias(w, s) == [ref |-> "buffer", items |-> w.stores[s].logs]

StoreGetAllLogs(w, s) == FreshArray(w.stores[s].logs)

NotifyListeners(w, s, c, d) ==
  NotifyEach(w, s, c, StoreGetAllLogs(w, s).items, w.stores[s].listeners, d)

(* LogStore.addLog: push, one shift when over the bound, notify. *)
StoreAddLog_NoEvict(w, s, e, d) ==
  LET pushed == Append(w.stores[s].logs, e)
      c  == Ops(w) + 1
      w1 == Emit([w EXCEPT !.stores[s].logs = pushed,
                           !.stores[s].added =
                             IF w.stores[s].pure THEN Append(@, e) ELSE @],
                 [t |-> "op", op |-> "addLog", s |-> s, c |-> c,
                  post |-> pushed, subs |-> w.stores[s].listeners])
      w2 == NotifyListeners(w1, s, c, d + 1)
  IN Emit(w2, [t |-> "opend", c |-> c, exc |-> w2.exc])

StoreAddLog(w, s, e, d) ==
  LET pushed == Append(w.stores[s].logs, e)
      kept   == IF Len(pushed) > w.stores[s].maxLogs
                THEN Tail(pushed) ELSE pushed
      c  == Ops(w) + 1
      w1 == Emit([w EXCEPT !.stores[s].logs = kept,
                           !.stores[s].added =
                             IF w.stores[s].pure THEN Append(@, e) ELSE @],
                 [t |-> "op", op |-> "addLog", s |-> s, c |-> c,
                  post |-> kept, subs |-> w.stores[s].listeners])
      w2 == NotifyListeners(w1, s, c, d + 1)
  IN Emit(w2, [t |-> "opend", c |-> c, exc |-> w2.exc])

(* LogStore.clearLogs: a new empty buffer, notify. *)
StoreClearLogs(w, s, d) ==
  LET c  == Ops(w) + 1
      w1 == Emit([w EXCEPT !.stores[s].logs = <<>>,
                           !.stores[s].pure = FALSE, !.stores[s].added = <<>>],
                 [t |-> "op", op |-> "clearLogs", s |-> s, c |-> c,
                  post |-> <<>>, subs |-> w.stores[s].listeners])
      w2 == NotifyListeners(w1, s, c, d + 1)
  IN Emit(w2, [t |-> "opend", c |-> c, exc |-> w2.exc])

(* The callback closures of an interceptor or a capturer. *)
InvokeCb(w, cb, c, e, d) ==
  CASE cb.k = "probe" ->
         RunProbe(w, cb.o, [t |-> "cb", who |-> cb, c |-> c, e |-> e])
    [] cb.k = "mgrAdd" ->
         IF w.mgrs[cb.o].store = 0 THEN Throw(w, "TypeError")
         ELSE Exec(w, AddLogOf(w.mgrs[cb.o].store, e), d + 1)
    [] cb.k = "storeAdd" -> Exec(w, AddLogOf(cb.o, e), d + 1)

(* ConsoleInterceptor._handleConsoleCall: build the entry, run every       *)
(* callback under its own try/catch, report failures through the stored    *)
(* original error method.                                                  *)
IcptNotify_Abort(w, i, c, e, cbs, d) ==
  IF cbs = <<>> THEN w
  ELSE LET w1 == Exec(w, [op |-> "InvokeCb", cb |-> Head(cbs), c |-> c,
                          e |-> e], d + 1)
       IN IF Ok(w1)
          THEN Exec(w1, [op |-> "IcptNotify", i |-> i, c |-> c, e |-> e,
                         cbs |-> Tail(cbs)], d)
          ELSE w1

IcptNotify_SkipRest(w, i, c, e, cbs, d) ==
  IF cbs = <<>> THEN w
  ELSE LET w1 == Exec(w, [op |-> "InvokeCb", cb |-> Head(cbs), c |-> c,
                          e |-> e], d + 1)
       IN IF Ok(w1)
          THEN Exec(w1, [op |-> "IcptNotify", i |-> i, c |-> c, e |-> e,
                         cbs |-> Tail(cbs)], d)
          ELSE Exec(Caught(w1),
                    Call(BoundOf(i, "error"), <<"callbackError", w1.exc>>),
                    d + 1)

IcptNotify(w, i, c, e, cbs, d) ==
  IF cbs = <<>> THEN w
  ELSE LET w1 == Exec(w, [op |-> "InvokeCb", cb |-> Head(cbs), c |-> c,
                          e |-> e], d + 1)
           w2 == IF Ok(w1) THEN w1
                 ELSE Exec(Caught(w1),
                           Call(BoundOf(i, "error"),
                                <<"callbackError", w1.exc>>), d + 1)
       IN IF Ok(w2)
          THEN Exec(w2, [op |-> "IcptNotify", i |-> i, c |-> c, e |-> e,
                         cbs |-> Tail(cbs)], d)
          ELSE w2

HandleConsoleCall(w, i, level, args, d) ==
  LET e  == [id |-> w.nextEntry + 1, level |-> level, args |-> args,
             stack |-> (level = "error")]
      c  == Calls(w) + 1
      w0 == Emit([w EXCEPT !.nextEntry = @ + 1],
                 [t |-> "call", c |-> c, i |-> i, e |-> e,
                  cbs |-> w.icpts[i].callbacks])
      w1 == IcptNotify(w0, i, c, e, w0.icpts[i].callbacks, d + 1)
      w2 == IF Ok(w1) THEN w1
            ELSE Exec(Caught(w1),
                      Call(BoundOf(i, "error"), <<"handleError", w1.exc>>),
                      d + 1)
  IN Emit(w2, [t |-> "callend", c |-> c, exc |-> w2.exc])

(* ErrorCapturer._notifyCallbacks: as the store's notification, failures   *)
(* go to the console.error installed at that moment.                       *)
CapNotifyEach_NoCatch(w, cp, e, cbs, d) ==
  IF cbs = <<>> THEN w
  ELSE LET w1 == Exec(w, [op |-> "InvokeCb", cb |-> Head(cbs), c |-> 0,
                          e |-> e], d + 1)
       IN IF Ok(w1)
          THEN Exec(w1, [op |-> "CapNotifyEach", cp |-> cp, e |-> e,
                         cbs |-> Tail(cbs)], d)
          ELSE w1

CapNotifyEach(w, cp, e, cbs, d) ==
  IF cbs = <<>> THEN w
  ELSE LET w1 == Exec(w, [op |-> "InvokeCb", cb |-> Head(cbs), c |-> 0,
                          e |-> e], d + 1)
           w2 == IF Ok(w1) THEN w1
                 ELSE Exec(Caught(w1),
                           Call(w1.console["error"],
                                <<"captureCallbackError", w1.exc>>), d + 1)
       IN IF Ok(w2)
          THEN Exec(w2, [op |-> "CapNotifyEach", cp |-> cp, e |-> e,
                         cbs |-> Tail(cbs)], d)
          ELSE w2

(* _handleGlobalError, _handlePromiseRejection and the resource listener:  *)
(* an error-level entry handed to _notifyCallbacks.                        *)
CapNotify(w, cp, kind, d) ==
  LET e == [id |-> w.nextEntry + 1, level |-> "error",
            args |-> <<kind>>, stack |-> TRUE]
      w0 == Emit([w EXCEPT !.nextEntry = @ + 1],
                 [t |-> "captured", cp |-> cp, e |-> e,
                  cbs |-> w.caps[cp].callbacks])
  IN CapNotifyEach(w0, cp, e, w0.caps[cp].callbacks, d + 1)

(* Calling a function value with an argument list. *)
CallFn(w, f, args, d) ==
  CASE f.k = "native" ->
         Emit(w, [t |-> "native", l |-> f.l, args |-> args])
    [] f.k = "bound" ->
         Exec(w, Call(w.icpts[f.o].target[f.l], args), d + 1)
    [] f.k = "wrapper" ->
         LET w0 == Emit(w, [t |-> "console", i |-> f.o, l |-> f.l,
                            args |-> args])
             w1 == Exec(w0, HandleOf(f.o, f.l, args), d + 1)
         IN IF Ok(w1)
            THEN Exec(Emit(w1, [t |-> "forward", i |-> f.o, l |-> f.l,
                                args |-> args]),
                      Call(BoundOf(f.o, f.l), args), d + 1)
            ELSE w1
    [] f.k = "caperr" ->
         LET w1 == Exec(w, CaptureOf(f.o, "globalError"), d + 1)
         IN IF ~Ok(w1) THEN w1
            ELSE IF w1.caps[f.o].origErr # NullFn
                 THEN Exec(w1, Call(w1.caps[f.o].origErr, args), d + 1)
                 ELSE [w1 EXCEPT !.val = "false"]
    [] f.k = "caprej" ->
         LET w1 == Exec(w, CaptureOf(f.o, "rejection"), d + 1)
         IN IF ~Ok(w1) THEN w1
            ELSE IF w1.caps[f.o].origRej # NullFn
                 THEN [Exec(w1, Call(w1.caps[f.o].origRej, args), d + 1)
                         EXCEPT !.val = "void"]
                 ELSE w1
    [] f.k = "host" ->
         [Emit(w, [t |-> "host", args |-> args]) EXCEPT !.val = "host"]
    [] f.k = "null" -> Throw(w, "TypeError")

(* The engine: a call nested deeper than the stack allows raises           *)
(* RangeError at the call.                                                 *)
Exec(w, k, d) ==
  IF d >= MaxStack THEN Throw(w, "RangeError")
  ELSE CASE k.op = "CallFn" -> CallFn(w, k.f, k.args, d)
         [] k.op = "HandleConsoleCall" ->
              HandleConsoleCall(w, k.i, k.l, k.args, d)
         [] k.op = "IcptNotify" -> IcptNotify(w, k.i, k.c, k.e, k.cbs, d)
         [] k.op = "InvokeCb" -> InvokeCb(w, k.cb, k.c, k.e, d)
         [] k.op = "StoreAddLog" -> StoreAddLog(w, k.s, k.e, d)
         [] k.op = "StoreClearLogs" -> StoreClearLogs(w, k.s, d)
         [] k.op = "NotifyEach" ->
              NotifyEach(w, k.s, k.c, k.logs, k.subs, d)
         [] k.op = "InvokeSub" -> InvokeSub(w, k.sub, k.c, k.logs, d)
         [] k.op = "CapNotify" -> CapNotify(w, k.cp, k.kind, d)
         [] k.op = "CapNotifyEach" ->
              CapNotifyEach(w, k.cp, k.e, k.cbs, d)

----------------------------------------------------------------------------
(* LogStore *)

(* added and pure are history: whether addLog is the only mutation made    *)
(* since the store was made, and while it is, every entry handed to it.    *)
NewStore(maxLogs) ==
  [logs |-> <<>>, maxLogs |-> maxLogs, listeners |-> <<>>,
   added |-> <<>>, pure |-> TRUE]

StoreSetMaxLogs_Unchecked(w, s, n, d) ==
  LET w1 == [w EXCEPT !.stores[s].maxLogs = n,
                      !.stores[s].pure = FALSE, !.stores[s].added = <<>>]
  IN IF n <= 0 THEN Throw(w1, "InvalidMaxLogs") ELSE w1

StoreSetMaxLogs_DropNewest(w, s, n, d) ==
  IF n <= 0 THEN Throw(w, "InvalidMaxLogs")
  ELSE LET w1 == [w EXCEPT !.stores[s].maxLogs = n,
                           !.stores[s].pure = FALSE, !.stores[s].added = <<>>]
       IN IF Len(w1.stores[s].logs) > n
          THEN LET kept == SubSeq(w1.stores[s].logs, 1, n)
                   c  == Ops(w1) + 1
                   w2 == Emit([w1 EXCEPT !.stores[s].logs = kept],
                              [t |-> "op", op |-> "setMaxLogs", s |-> s,
                               c |-> c, post |-> kept,
                               subs |-> w1.stores[s].listeners])
                   w3 == NotifyListeners(w2, s, c, d + 1)
               IN Emit(w3, [t |-> "opend", c |-> c, exc |-> w3.exc])
          ELSE w1

StoreSetMaxLogs_Silent(w, s, n, d) ==
  IF n <= 0 THEN Throw(w, "InvalidMaxLogs")
  ELSE [w EXCEPT !.stores[s].maxLogs = n,
                 !.stores[s].logs = LastN(@, n),
                 !.stores[s].pure = FALSE, !.stores[s].added = <<>>]

StoreSetMaxLogs(w, s, n, d) ==
  IF n <= 0 THEN Throw(w, "InvalidMaxLogs")
  ELSE LET w1 == [w EXCEPT !.stores[s].maxLogs = n,
                           !.stores[s].pure = FALSE, !.stores[s].added = <<>>]
       IN IF Len(w1.stores[s].logs) > n
          THEN LET kept == LastN(w1.stores[s].logs, n)
                   c  == Ops(w1) + 1
                   w2 == Emit([w1 EXCEPT !.stores[s].logs = kept],
                              [t |-> "op", op |-> "setMaxLogs", s |-> s,
                               c |-> c, post |-> kept,
                               subs |-> w1.stores[s].listeners])
                   w3 == NotifyListeners(w2, s, c, d + 1)
               IN Emit(w3, [t |-> "opend", c |-> c, exc |-> w3.exc])
          ELSE w1

StoreSubscribe(w, s, sub) == [w EXCEPT !.stores[s].listeners = SetAdd(@, sub)]
StoreUnsubscribe(w, s, sub) == [w EXCEPT !.stores[s].listeners = Without(@, sub)]

StoreDestroy(w, s) ==
  [w EXCEPT !.stores[s].logs = <<>>, !.stores[s].listeners = <<>>,
            !.stores[s].pure = FALSE, !.stores[s].added = <<>>]

StoreGetStatistics(w, s) ==
  [l \in LogLevel \cup {"total"} |->
     IF l = "total" THEN Len(w.stores[s].logs)
     ELSE Cardinality({k \in DOMAIN w.stores[s].logs :
                         w.stores[s].logs[k].level = l})]

ZeroStatistics == [l \in LogLevel \cup {"total"} |-> 0]

----------------------------------------------------------------------------
(* ConsoleInterceptor *)

(* The constructor stores console[l].bind(console): a new function object  *)
(* per level, whose target is what the slot held at construction.          *)
NewInterceptor(w) ==
  [w EXCEPT !.icpts = Append(@, [target |-> w.console, callbacks |-> <<>>,
                                 isIntercepting |-> FALSE])]

StartIntercepting_Resave(w, i) ==
  [w EXCEPT !.icpts[i].isIntercepting = TRUE,
            !.icpts[i].target = w.console,
            !.console = [l \in LogLevel |-> Wrapper(i, l)]]

StartIntercepting(w, i) ==
  IF w.icpts[i].isIntercepting THEN w
  ELSE [w EXCEPT !.icpts[i].isIntercepting = TRUE,
                 !.console = [l \in LogLevel |-> Wrapper(i, l)]]

StopIntercepting(w, i) ==
  IF ~w.icpts[i].isIntercepting THEN w
  ELSE [w EXCEPT !.icpts[i].isIntercepting = FALSE,
                 !.console = [l \in LogLevel |-> BoundOf(i, l)]]

IcptAddCallback(w, i, cb) == [w EXCEPT !.icpts[i].callbacks = SetAdd(@, cb)]
IcptRemoveCallback(w, i, cb) == [w EXCEPT !.icpts[i].callbacks = Without(@, cb)]

IcptDestroy(w, i) ==
  [StopIntercepting(w, i) EXCEPT !.icpts[i].callbacks = <<>>]

ManualLog_ViaConsole(w, i, level, args, d) ==
  Exec(w, Call(w.console[level], args), d + 1)

ManualLog(w, i, level, args, d) == Exec(w, HandleOf(i, level, args), d + 1)

CallOriginal(w, i, level, args, d) ==
  Exec(w, Call(BoundOf(i, level), args), d + 1)

----------------------------------------------------------------------------
(* ErrorCapturer *)

NewCapturer(w) ==
  [w EXCEPT !.caps = Append(@, [callbacks |-> <<>>, origErr |-> NullFn,
                                origRej |-> NullFn, isActive |-> FALSE])]

CapStart_Resave(w, c) ==
  [w EXCEPT !.caps[c].isActive = TRUE,
            !.caps[c].origErr = w.onerror,
            !.caps[c].origRej = w.onrejection,
            !.onerror = CapErr(c),
            !.onrejection = CapRej(c),
            !.resl = IF w.caps[c].isActive THEN @ ELSE Append(@, c)]

CapStart(w, c) ==
  IF w.caps[c].isActive THEN w
  ELSE [w EXCEPT !.caps[c].isActive = TRUE,
                 !.caps[c].origErr = w.onerror,
                 !.caps[c].origRej = w.onrejection,
                 !.onerror = CapErr(c),
                 !.onrejection = CapRej(c),
                 !.resl = Append(@, c)]

CapStop_Forget(w, c) ==
  IF ~w.caps[c].isActive THEN w
  ELSE [w EXCEPT !.caps[c].isActive = FALSE,
                 !.caps[c].origErr = NullFn,
                 !.caps[c].origRej = NullFn]

CapStop(w, c) ==
  IF ~w.caps[c].isActive THEN w
  ELSE [w EXCEPT !.caps[c].isActive = FALSE,
                 !.onerror = w.caps[c].origErr,
                 !.onrejection = w.caps[c].origRej,
                 !.caps[c].origErr = NullFn,
                 !.caps[c].origRej = NullFn]

CapAddCallback(w, c, cb) == [w EXCEPT !.caps[c].callbacks = SetAdd(@, cb)]

CapDestroy(w, c) == [CapStop(w, c) EXCEPT !.caps[c].callbacks = <<>>]

(* A resource-load failure reaches every capturing listener on window.     *)
RECURSIVE ResourceError(_, _, _)
ResourceError(w, ls, d) ==
  IF ls = <<>> THEN w
  ELSE LET w1 == Exec(w, CaptureOf(Head(ls), "resourceError"), d + 1)
       IN ResourceError(Caught(w1), Tail(ls), d)

----------------------------------------------------------------------------
(* styles.ts *)

InjectStyles(w, opts) ==
  IF w.style = "none" /\ w.dom = "noHead" THEN Throw(w, "TypeError")
  ELSE [w EXCEPT !.style = IF "theme" \in DOMAIN opts THEN opts.theme
                           ELSE "dark"]

RemoveStyles(w) == [w EXCEPT !.style = "none"]

----------------------------------------------------------------------------
(* DebugOverlayManager *)

(* initCalls is history: the init() calls made since the manager was last  *)
(* uninitialized.                                                          *)
NewManager ==
  [icpt |-> 0, store |-> 0, rend |-> 0, cap |-> 0, isInit |-> FALSE,
   options |-> <<>>, initCalls |-> 0]

Merge(a, b) ==
  [k \in DOMAIN a \cup DOMAIN b |-> IF k \in DOMAIN b THEN b[k] ELSE a[k]]

Differs(a, b, k) ==
  \/ (k \in DOMAIN a) # (k \in DOMAIN b)
  \/ k \in DOMAIN a /\ k \in DOMAIN b /\ a[k] # b[k]

EnsureInitialized_Lenient(w, m) == w

EnsureInitialized(w, m) ==
  IF w.mgrs[m].isInit THEN w ELSE Throw(w, "NotInitialized")

MgrCleanup(w, m) ==
  LET mg == w.mgrs[m]
      w1 == IF mg.icpt # 0
            THEN [IcptDestroy(w, mg.icpt) EXCEPT !.mgrs[m].icpt = 0] ELSE w
      w2 == IF mg.cap # 0
            THEN [CapDestroy(w1, mg.cap) EXCEPT !.mgrs[m].cap = 0] ELSE w1
      w3 == IF mg.store # 0
            THEN [StoreDestroy(w2, mg.store) EXCEPT !.mgrs[m].store = 0]
            ELSE w2
      w4 == IF mg.rend # 0
            THEN [RendererDestroy(w3, mg.rend) EXCEPT !.mgrs[m].rend = 0]
            ELSE w3
  IN [RemoveStyles(w4) EXCEPT !.mgrs[m].isInit = FALSE,
                              !.mgrs[m].initCalls = 0]

SetupConnections(w, m) ==
  LET mg == w.mgrs[m]
  IN IF mg.icpt = 0 \/ mg.store = 0 \/ mg.rend = 0 \/ mg.cap = 0
     THEN Throw(w, "Error")
     ELSE RendererOnFilterChange(
            StoreSubscribe(
              CapAddCallback(IcptAddCallback(w, mg.icpt, MgrAdd(m)),
                             mg.cap, MgrAdd(m)),
              mg.store, MgrRender(m)),
            mg.rend, MgrFilter(m))

(* The try block of init. *)
InitBody(w, m, opts, d) ==
  LET w1 == InjectStyles([w EXCEPT !.mgrs[m].options = opts], opts)
      w2 == [w1 EXCEPT
               !.stores = Append(@, NewStore(IF "maxLogs" \in DOMAIN opts
                                             THEN opts.maxLogs
                                             ELSE DefaultMaxLogs)),
               !.mgrs[m].store = Len(w1.stores) + 1]
      w3 == [NewInterceptor(w2) EXCEPT !.mgrs[m].icpt = Len(w2.icpts) + 1]
      w4 == [NewCapturer(w3) EXCEPT !.mgrs[m].cap = Len(w3.caps) + 1]
      w5 == [w4 EXCEPT !.rends = Append(@, NewRenderer(opts)),
                       !.mgrs[m].rend = Len(w4.rends) + 1]
      w6 == SetupConnections(w5, m)
      w7 == IF Ok(w6)
            THEN CreateOverlay(
                   CapStart(StartIntercepting(w6, w6.mgrs[m].icpt),
                            w6.mgrs[m].cap),
                   w6.mgrs[m].rend)
            ELSE w6
  IN IF ~Ok(w1) THEN w1
     ELSE IF Ok(w7)
          THEN Exec([w7 EXCEPT !.mgrs[m].isInit = TRUE,
                               !.mgrs[m].initCalls = 1],
                    Call(w7.console["log"], <<"initialized">>), d + 1)
          ELSE w7

MgrInit_NoRollback(w, m, opts, d) ==
  IF w.mgrs[m].isInit
  THEN Exec([w EXCEPT !.mgrs[m].initCalls = @ + 1],
            Call(w.console["warn"], <<"alreadyInitialized">>), d + 1)
  ELSE LET w1 == InitBody(w, m, opts, d)
       IN IF Ok(w1) THEN w1
          ELSE LET w2 == Exec(Caught(w1),
                              Call(w1.console["error"],
                                   <<"initError", w1.exc>>), d + 1)
               IN IF Ok(w2) THEN Throw(w2, w1.exc) ELSE w2

MgrInit(w, m, opts, d) ==
  IF w.mgrs[m].isInit
  THEN Exec([w EXCEPT !.mgrs[m].initCalls = @ + 1],
            Call(w.console["warn"], <<"alreadyInitialized">>), d + 1)
  ELSE LET w1 == InitBody(w, m, opts, d)
       IN IF Ok(w1) THEN w1
          ELSE LET w2 == Exec(Caught(w1),
                              Call(w1.console["error"],
                                   <<"initError", w1.exc>>), d + 1)
               IN IF Ok(w2) THEN Throw(MgrCleanup(w2, m), w1.exc) ELSE w2

MgrDestroy(w, m, d) ==
  IF ~w.mgrs[m].isInit THEN w
  ELSE LET w1 == MgrCleanup(w, m)
           w2 == Exec(w1, Call(w1.console["log"], <<"destroyed">>), d + 1)
       IN IF Ok(w2) THEN w2
          ELSE Exec(Caught(w2),
                    Call(w2.console["error"], <<"destroyError", w2.exc>>),
                    d + 1)

MgrOpen(w, m) ==
  LET w1 == EnsureInitialized(w, m)
  IN IF Ok(w1) /\ w1.mgrs[m].rend # 0
     THEN RendererShow(w1, w1.mgrs[m].rend) ELSE w1

MgrClose(w, m) ==
  LET w1 == EnsureInitialized(w, m)
  IN IF Ok(w1) /\ w1.mgrs[m].rend # 0
     THEN RendererHide(w1, w1.mgrs[m].rend) ELSE w1

MgrToggle(w, m) ==
  LET w1 == EnsureInitialized(w, m)
  IN IF Ok(w1) /\ w1.mgrs[m].rend # 0
     THEN RendererToggle(w1, w1.mgrs[m].rend) ELSE w1

MgrIsVisible(w, m) ==
  IF ~w.mgrs[m].isInit \/ w.mgrs[m].rend = 0
  THEN [w EXCEPT !.val = FALSE]
  ELSE [w EXCEPT !.val = w.rends[w.mgrs[m].rend].isVisible]

MgrAddLog_Unchecked(w, m, level, args, d) ==
  IF w.mgrs[m].icpt # 0
  THEN ManualLog(w, w.mgrs[m].icpt, level, args, d + 1) ELSE w

MgrAddLog(w, m, level, args, d) ==
  LET w1 == EnsureInitialized(w, m)
  IN IF Ok(w1) /\ w1.mgrs[m].icpt # 0
     THEN ManualLog(w1, w1.mgrs[m].icpt, level, args, d + 1) ELSE w1

MgrClearLogs(w, m, d) ==
  LET w1 == EnsureInitialized(w, m)
  IN IF Ok(w1) /\ w1.mgrs[m].store # 0
     THEN StoreClearLogs(w1, w1.mgrs[m].store, d + 1) ELSE w1

MgrGetOptions(w, m) == [w EXCEPT !.val = w.mgrs[m].options]

MgrUpdateOptions(w, m, opts, d) ==
  LET w0 == EnsureInitialized(w, m)
      old == w.mgrs[m].options
      new == Merge(old, opts)
      w1 == [w0 EXCEPT !.mgrs[m].options = new]
      w2 == IF Differs(old, new, "theme") THEN InjectStyles(w1, new) ELSE w1
  IN IF ~Ok(w0) THEN w0
     ELSE IF Differs(old, new, "maxLogs") /\ w2.mgrs[m].store # 0
          THEN StoreSetMaxLogs(w2, w2.mgrs[m].store,
                               IF "maxLogs" \in DOMAIN new /\ new.maxLogs # 0
                               THEN new.maxLogs ELSE DefaultMaxLogs, d + 1)
          ELSE w2

MgrGetStatistics_Graceful(w, m) ==
  IF w.mgrs[m].isInit /\ w.mgrs[m].store # 0
  THEN [w EXCEPT !.val = StoreGetStatistics(w, w.mgrs[m].store)]
  ELSE [w EXCEPT !.val = ZeroStatistics]

MgrGetStatistics(w, m) ==
  LET w1 == EnsureInitialized(w, m)
  IN IF ~Ok(w1) THEN w1
     ELSE IF w1.mgrs[m].store # 0
          THEN [w1 EXCEPT !.val = StoreGetStatistics(w1, w1.mgrs[m].store)]
          ELSE [w1 EXCEPT !.val = ZeroStatistics]

----------------------------------------------------------------------------
(* LogStore reads.  A string is a sequence of characters; an argument      *)
(* token that is not spelled out below is a text of one opaque symbol.     *)

ObjectText ==
  <<"[", "O", "b", "j", "e", "c", "t", ":", " ", "o", "b", "j", "e", "c",
    "t", "]">>

(* _stringifyLogArg: strings as they are, numbers by String(); an object   *)
(* JSON.stringify cannot serialise gives the fallback text.                *)
StringifyLogArg(arg) ==
  CASE arg = "poison" -> ObjectText
    [] OTHER -> <<arg>>

LowerChar(ch) ==
  CASE ch = "A" -> "a" [] ch = "O" -> "o" [] OTHER -> ch

ToLowerCase(str) == [k \in DOMAIN str |-> LowerChar(str[k])]

Whitespace == {" ", "\t", "\n"}

IsBlank(str) == \A k \in DOMAIN str : str[k] \in Whitespace

Includes(hay, needle) ==
  \E k \in 0..(Len(hay) - Len(needle)) :
    SubSeq(hay, k + 1, k + Len(needle)) = needle

RECURSIVE JoinArgs(_)
JoinArgs(args) ==
  IF args = <<>> THEN <<>>
  ELSE IF Len(args) = 1 THEN StringifyLogArg(Head(args))
       ELSE StringifyLogArg(Head(args)) \o <<" ">> \o JoinArgs(Tail(args))

RECURSIVE FilterContent(_, _, _)
FilterContent(logs, term, caseSensitive) ==
  IF logs = <<>> THEN <<>>
  ELSE LET content == IF caseSensitive THEN JoinArgs(Head(logs).args)
                      ELSE ToLowerCase(JoinArgs(Head(logs).args))
           rest == FilterContent(Tail(logs), term, caseSensitive)
       IN IF Includes(content, term) THEN <<Head(logs)>> \o rest ELSE rest

StoreSearchLogsArray_NoFold(w, s, text, caseSensitive) ==
  IF IsBlank(text) THEN StoreGetAllLogs(w, s)
  ELSE FreshArray(FilterContent(w.stores[s].logs, text, TRUE))

(* searchLogs, with the array it returns: getAllLogs' array for a blank    *)
(* text, the array filter makes otherwise.                                 *)
StoreSearchLogsArray(w, s, text, caseSensitive) ==
  IF IsBlank(text) THEN StoreGetAllLogs(w, s)
  ELSE FreshArray(FilterContent(w.stores[s].logs,
                                IF caseSensitive THEN text
                                ELSE ToLowerCase(text),
                                caseSensitive))

StoreSearchLogs(w, s, text, caseSensitive) ==
  StoreSearchLogsArray(w, s, text, caseSensitive).items

(* Timestamps are read from the clock once per entry; the model's clock is *)
(* the entry counter, so an entry's timestamp is its id.                   *)
RECURSIVE FilterTime(_, _, _)
FilterTime(logs, a, b) ==
  IF logs = <<>> THEN <<>>
  ELSE IF Head(logs).id >= a /\ Head(logs).id <= b
       THEN <<Head(logs)>> \o FilterTime(Tail(logs), a, b)
       ELSE FilterTime(Tail(logs), a, b)

StoreGetLogsByTimeRange(w, s, a, b) == FilterTime(w.stores[s].logs, a, b)

StoreGetLogsByLevels_AllOnEmpty(w, s, levels) ==
  IF levels = {} THEN w.stores[s].logs
  ELSE SelectEntries(w.stores[s].logs, levels)

StoreGetLogsByLevels(w, s, levels) ==
  IF levels = {} THEN <<>> ELSE SelectEntries(w.stores[s].logs, levels)

StoreGetRecentLogs(w, s, n) ==
  IF n <= 0 THEN <<>> ELSE LastN(w.stores[s].logs, n)

MgrSearchLogs(w, m, text, caseSensitive) ==
  LET w1 == EnsureInitialized(w, m)
  IN IF ~Ok(w1) THEN w1
     ELSE IF w1.mgrs[m].store # 0
          THEN [w1 EXCEPT !.val = StoreSearchLogs(w1, w1.mgrs[m].store, text,
                                                  caseSensitive)]
          ELSE [w1 EXCEPT !.val = <<>>]

MgrGetLogsByTimeRange(w, m, a, b) ==
  LET w1 == EnsureInitialized(w, m)
  IN IF ~Ok(w1) THEN w1
     ELSE IF w1.mgrs[m].store # 0
          THEN [w1 EXCEPT !.val = StoreGetLogsByTimeRange(
                                    w1, w1.mgrs[m].store, a, b)]
          ELSE [w1 EXCEPT !.val = <<>>]

(* exportLogs: JSON.stringify of the buffer; it throws on a value it       *)
(* cannot serialise.                                                       *)
MgrExportLogs(w, m) ==
  LET w1 == EnsureInitialized(w, m)
  IN IF ~Ok(w1) THEN w1
     ELSE IF w1.mgrs[m].store # 0
          THEN IF \E k \in DOMAIN w1.stores[w1.mgrs[m].store].logs :
                    Poisoned(w1.stores[w1.mgrs[m].store].logs[k])
               THEN Throw(w1, "TypeError")
               ELSE [w1 EXCEPT !.val =
                       [json |-> w1.stores[w1.mgrs[m].store].logs]]
          ELSE [w1 EXCEPT !.val = [json |-> <<>>]]

----------------------------------------------------------------------------
(* One top-level call: the world it leaves, what it did, how it ended.     *)

Apply(w, op) ==
  /\ console' = w.console
  /\ onerror' = w.onerror
  /\ onrejection' = w.onrejection
  /\ resl' = w.resl
  /\ style' = w.style
  /\ body' = w.body
  /\ icpts' = w.icpts
  /\ caps' = w.caps
  /\ stores' = w.stores
  /\ rends' = w.rends
  /\ mgrs' = w.mgrs
  /\ nextEntry' = w.nextEntry
  /\ budget' = w.budget
  /\ trace' = w.trace
  /\ ret' = <<op, w.exc, w.val>>

NoRet == <<"none", "none", "void">>

RetOp(r)  == r[1]   \* the operation called
RetExc(r) == r[2]   \* what it raised, or "none"
RetVal(r) == r[3]   \* what it returned

----------------------------------------------------------------------------
(* The embedding application driving one DebugOverlayManager. *)

Mgr == 1

InitOptions == {<<>>, [maxLogs |-> 2], [maxLogs |-> 0]}
UpdateOptionsArgs ==
  {[maxLogs |-> 1], [maxLogs |-> 0], [maxLogs |-> -1], [theme |-> "light"]}
AppLevels == {"log", "error"}
AppArgs == {<<"a">>, <<"poison">>}
ManualArgs == {<<"m">>}
SearchTexts == {<<"A">>}

InitMgr ==
  /\ console = [l \in LogLevel |-> Native(l)]
  /\ onerror = HostHandler
  /\ onrejection = NullFn
  /\ resl = <<>>
  /\ style = "none"
  /\ body = <<>>
  /\ icpts = <<>>
  /\ caps = <<>>
  /\ stores = <<>>
  /\ rends = <<>>
  /\ mgrs = <<NewManager>>
  /\ nextEntry = 0
  /\ budget = [p \in ProbeIds |-> 0]
  /\ trace = <<>>
  /\ ret = NoRet

CanLog == nextEntry < MaxEntries

DoInit ==
  \E opts \in InitOptions, dom \in DomStates :
    /\ IF mgrs[Mgr].isInit THEN CanLog ELSE Len(icpts) < MaxObjs /\ CanLog
    /\ dom = "noBody" => body = <<>>
    /\ dom = "noHead" => style = "none"
    /\ Apply(MgrInit([World EXCEPT !.dom = dom], Mgr, opts, 0), "init")

DoDestroy == Apply(MgrDestroy(World, Mgr, 0), "destroy")
DoOpen == Apply(MgrOpen(World, Mgr), "open")
DoClose == Apply(MgrClose(World, Mgr), "close")
DoToggle == Apply(MgrToggle(World, Mgr), "toggle")
DoIsVisible == Apply(MgrIsVisible(World, Mgr), "isVisible")

DoAddLog ==
  \E l \in AppLevels, a \in ManualArgs :
    /\ CanLog
    /\ Apply(MgrAddLog(World, Mgr, l, a, 0), "addLog")

DoClearLogs == Apply(MgrClearLogs(World, Mgr, 0), "clearLogs")
DoGetOptions == Apply(MgrGetOptions(World, Mgr), "getOptions")

DoUpdateOptions ==
  \E opts \in UpdateOptionsArgs :
    Apply(MgrUpdateOptions(World, Mgr, opts, 0), "updateOptions")

DoGetStatistics == Apply(MgrGetStatistics(World, Mgr), "getStatistics")

DoSearchLogs ==
  \E text \in SearchTexts, cs \in {FALSE} :
    Apply(MgrSearchLogs(World, Mgr, text, cs), "searchLogs")

DoGetLogsByTimeRange ==
  \E a \in {1}, b \in {2} :
    Apply(MgrGetLogsByTimeRange(World, Mgr, a, b), "getLogsByTimeRange")

DoExportLogs == Apply(MgrExportLogs(World, Mgr), "exportLogs")

(* The application, or anything else on the page, calls console[l](args).  *)
ConsoleCall ==
  \E l \in AppLevels, a \in AppArgs :
    /\ CanLog
    /\ Apply(Exec(World, Call(console[l], a), 0), "console")

(* The host reports an uncaught error to window.onerror. *)
GlobalError ==
  /\ CanLog
  /\ onerror # NullFn
  /\ Apply(Exec(World, Call(onerror, <<"boom">>), 0), "onerror")

NextMgr ==
  \/ DoInit \/ DoDestroy \/ DoOpen \/ DoClose \/ DoToggle \/ DoIsVisible
  \/ DoAddLog \/ DoClearLogs \/ DoGetOptions \/ DoUpdateOptions
  \/ DoGetStatistics \/ DoSearchLogs \/ DoGetLogsByTimeRange
  \/ DoExportLogs \/ ConsoleCall \/ GlobalError

SpecMgr == InitMgr /\ [][NextMgr]_vars

----------------------------------------------------------------------------
(* SpecView: the manager with a user who also clicks the filter buttons of *)
(* its panel.                                                              *)

ClickLevels == {"log", "error"}

MgrFilterClick ==
  \E level \in ClickLevels :
    /\ mgrs[Mgr].isInit
    /\ mgrs[Mgr].rend # 0
    /\ rends[mgrs[Mgr].rend].elements
    /\ Apply(RendererFilterClick(World, mgrs[Mgr].rend, level),
             "filterClick")

NextView ==
  \/ DoInit \/ DoOpen \/ DoClose \/ DoToggle
  \/ DoAddLog \/ DoClearLogs \/ DoUpdateOptions
  \/ ConsoleCall \/ GlobalError \/ MgrFilterClick

SpecView == InitMgr /\ [][NextView]_vars

----------------------------------------------------------------------------
(* A LogStore used on its own by embedding code that subscribes its own    *)
(* listeners (probes), on a page where a ConsoleInterceptor whose callback *)
(* appends to the same store (the manager's wiring) may be intercepting.   *)

TheStore == 1
TheIcpt == 1
MaxBound == 2
UnitArgs == {<<"a", "1">>}
UnitSubscribers == {Probe(1), Probe(2)}

Init ==
  /\ console = [l \in LogLevel |-> Native(l)]
  /\ onerror = HostHandler
  /\ onrejection = NullFn
  /\ resl = <<>>
  /\ style = "none"
  /\ body = <<>>
  /\ icpts = <<[target |-> [l \in LogLevel |-> Native(l)],
                callbacks |-> <<StoreAdd(TheStore)>>,
                isIntercepting |-> FALSE]>>
  /\ caps = <<>>
  /\ \E bound \in 1..MaxBound : stores = <<NewStore(bound)>>
  /\ rends = <<>>
  /\ mgrs = <<NewManager>>
  /\ nextEntry = 0
  /\ budget \in ThrowBudgets
  /\ trace = <<>>
  /\ ret = NoRet

(* The embedding code makes an entry and hands it to store.addLog. *)
AddLog ==
  \E l \in {"log", "error"} :
    /\ CanLog
    /\ Apply(Exec([World EXCEPT !.nextEntry = @ + 1],
                  AddLogOf(TheStore, [id |-> nextEntry + 1, level |-> l,
                                      args |-> <<"a">>, stack |-> FALSE]),
                  0), "store.addLog")

ClearLogs == Apply(StoreClearLogs(World, TheStore, 0), "store.clearLogs")

Subscribe ==
  \E sub \in UnitSubscribers :
    Apply(StoreSubscribe(World, TheStore, sub), "store.subscribe")

Unsubscribe ==
  \E sub \in UnitSubscribers :
    Apply(StoreUnsubscribe(World, TheStore, sub), "store.unsubscribe")

SetMaxLogs ==
  \E n \in -1..MaxBound :
    Apply(StoreSetMaxLogs(World, TheStore, n, 0), "store.setMaxLogs")

Start == Apply(StartIntercepting(World, TheIcpt), "startIntercepting")
Stop == Apply(StopIntercepting(World, TheIcpt), "stopIntercepting")

Console ==
  \E a \in UnitArgs :
    /\ CanLog
    /\ Apply(Exec(World, Call(console["log"], a), 0), "console")

Next ==
  \/ AddLog \/ ClearLogs \/ SetMaxLogs \/ Subscribe \/ Unsubscribe
  \/ Start \/ Stop \/ Console

Spec == Init /\ [][Next]_vars

----------------------------------------------------------------------------
(* ConsoleInterceptors used on their own, with the embedding code's        *)
(* callbacks (probes).                                                     *)

IcptCallbacks == {Probe(1), Probe(2)}

InitIcpt ==
  /\ console = [l \in LogLevel |-> Native(l)]
  /\ onerror = HostHandler
  /\ onrejection = NullFn
  /\ resl = <<>>
  /\ style = "none"
  /\ body = <<>>
  /\ icpts = <<>>
  /\ caps = <<>>
  /\ stores = <<>>
  /\ rends = <<>>
  /\ mgrs = <<NewManager>>
  /\ nextEntry = 0
  /\ budget \in ThrowBudgets
  /\ trace = <<>>
  /\ ret = NoRet

Construct ==
  /\ Len(icpts) < MaxObjs - 1
  /\ Apply(NewInterceptor(World), "new ConsoleInterceptor")

StartIcpt ==
  \E i \in DOMAIN icpts :
    Apply(StartIntercepting(World, i), "startIntercepting")

StopIcpt ==
  \E i \in DOMAIN icpts :
    Apply(StopIntercepting(World, i), "stopIntercepting")

(* The embedding code starts an interceptor that is already intercepting,  *)
(* or stops one that is not.                                               *)
StartAgain ==
  \E i \in DOMAIN icpts :
    /\ icpts[i].isIntercepting
    /\ Apply(StartIntercepting(World, i), "startIntercepting again")

StopAgain ==
  \E i \in DOMAIN icpts :
    /\ ~icpts[i].isIntercepting
    /\ Apply(StopIntercepting(World, i), "stopIntercepting again")

AddCallback ==
  \E i \in DOMAIN icpts, cb \in IcptCallbacks :
    Apply(IcptAddCallback(World, i, cb), "addCallback")

RemoveCallback ==
  \E i \in DOMAIN icpts, cb \in IcptCallbacks :
    Apply(IcptRemoveCallback(World, i, cb), "removeCallback")

ManualLogCall ==
  \E i \in DOMAIN icpts, l \in {"warn"}, a \in UnitArgs :
    /\ CanLog
    /\ Apply(ManualLog(World, i, l, a, 0), "manualLog")

ConsoleIcpt ==
  \E l \in LogLevel, a \in UnitArgs :
    /\ CanLog
    /\ Apply(Exec(World, Call(console[l], a), 0), "console")

NextIcpt ==
  \/ Construct \/ StartIcpt \/ StopIcpt \/ StartAgain \/ StopAgain
  \/ AddCallback \/ RemoveCallback
  \/ ManualLogCall \/ ConsoleIcpt

SpecIcpt == InitIcpt /\ [][NextIcpt]_vars

----------------------------------------------------------------------------
(* SpecDuo: two independently constructed ConsoleInterceptors on one page, *)
(* started and stopped in any order; their callbacks do not throw.         *)

InitDuo ==
  /\ console = [l \in LogLevel |-> Native(l)]
  /\ onerror = HostHandler
  /\ onrejection = NullFn
  /\ resl = <<>>
  /\ style = "none"
  /\ body = <<>>
  /\ icpts = <<>>
  /\ caps = <<>>
  /\ stores = <<>>
  /\ rends = <<>>
  /\ mgrs = <<NewManager>>
  /\ nextEntry = 0
  /\ budget = [p \in ProbeIds |-> 0]
  /\ trace = <<>>
  /\ ret = NoRet

ConstructDuo ==
  /\ Len(icpts) < MaxObjs
  /\ Apply(NewInterceptor(World), "new ConsoleInterceptor")

(* Interceptor i is given its own listener, Probe(i). *)
AddOwnCallback ==
  \E i \in DOMAIN icpts :
    /\ i \in ProbeIds
    /\ Apply(IcptAddCallback(World, i, Probe(i)), "addCallback")

ConsoleDuo ==
  \E l \in {"log", "error"}, a \in UnitArgs :
    /\ CanLog
    /\ Apply(Exec(World, Call(console[l], a), 0), "console")

NextDuo ==
  \/ ConstructDuo \/ StartIcpt \/ StopIcpt \/ AddOwnCallback \/ ConsoleDuo

SpecDuo == InitDuo /\ [][NextDuo]_vars

----------------------------------------------------------------------------
(* An ErrorCapturer used on its own, with the embedding code's callbacks   *)
(* (probes), on a page whose console may be intercepted by the             *)
(* interceptor that feeds the store.                                       *)

TheCapturer == 1

InitCap ==
  /\ console = [l \in LogLevel |-> Native(l)]
  /\ \E prior \in {<<HostHandler, NullFn>>, <<NullFn, HostHandler>>} :
       /\ onerror = prior[1]
       /\ onrejection = prior[2]
  /\ resl = <<>>
  /\ style = "none"
  /\ body = <<>>
  /\ icpts = <<[target |-> [l \in LogLevel |-> Native(l)],
                callbacks |-> <<StoreAdd(TheStore)>>,
                isIntercepting |-> FALSE]>>
  /\ caps = <<[callbacks |-> <<>>, origErr |-> NullFn, origRej |-> NullFn,
               isActive |-> FALSE]>>
  /\ stores = <<NewStore(MaxBound)>>
  /\ rends = <<>>
  /\ mgrs = <<NewManager>>
  /\ nextEntry = 0
  /\ budget \in ThrowBudgets
  /\ trace = <<>>
  /\ ret = NoRet

CaptureStart ==
  /\ Len(resl) < MaxObjs
  /\ Apply(CapStart(World, TheCapturer), "capturer.start")
CaptureStop == Apply(CapStop(World, TheCapturer), "capturer.stop")

CaptureAddCallback ==
  \E cb \in {Probe(1), Probe(2), StoreAdd(TheStore)} :
    Apply(CapAddCallback(World, TheCapturer, cb), "capturer.addCallback")

ErrorEvent ==
  /\ CanLog
  /\ onerror # NullFn
  /\ Apply(Exec(World, Call(onerror, <<"boom">>), 0), "onerror")

RejectionEvent ==
  /\ CanLog
  /\ onrejection # NullFn
  /\ Apply(Exec(World, Call(onrejection, <<"reason">>), 0),
           "onunhandledrejection")

ResourceEvent ==
  /\ CanLog
  /\ resl # <<>>
  /\ Apply(ResourceError(World, resl, 0), "resourceError")

NextCap ==
  \/ CaptureStart \/ CaptureStop \/ CaptureAddCallback
  \/ ErrorEvent \/ RejectionEvent \/ ResourceEvent
  \/ Start \/ Stop

SpecCap == InitCap /\ [][NextCap]_vars

----------------------------------------------------------------------------
(* SpecRead: a store with a buffer drawn from the bounded set of buffers   *)
(* addLog can build, one subscriber, and a caller that reads the store and *)
(* changes the arrays it was given.                                        *)

ReadLevels == {"log", "error"}
ReadArgs == {<<"A", "b">>, <<"a">>, <<"poison">>}
LevelSets == SUBSET {"log", "error", "debug"}
ReadTexts ==
  {<<>>, <<" ", "\t">>, <<"A">>, <<"a">>, <<"a", " ", "b">>, <<"O">>}
Mutations == {"push", "pop", "reverse"}

ReadBuffers ==
  UNION {{[k \in 1..n |-> [id |-> k, level |-> lv[k], args |-> as[k],
                           stack |-> FALSE]] :
            lv \in [1..n -> ReadLevels], as \in [1..n -> ReadArgs]} :
         n \in 0..MaxEntries}

InitRead ==
  /\ console = [l \in LogLevel |-> Native(l)]
  /\ onerror = HostHandler
  /\ onrejection = NullFn
  /\ resl = <<>>
  /\ style = "none"
  /\ body = <<>>
  /\ icpts = <<>>
  /\ caps = <<>>
  /\ \E buf \in ReadBuffers :
       /\ stores = <<[NewStore(MaxEntries + 1) EXCEPT
                        !.logs = buf, !.added = buf,
                        !.listeners = <<Probe(1)>>]>>
       /\ nextEntry = Len(buf)
  /\ rends = <<>>
  /\ mgrs = <<NewManager>>
  /\ budget = [p \in ProbeIds |-> 0]
  /\ trace = <<>>
  /\ ret = NoRet

Returns(w, arr) == [w EXCEPT !.val = arr]

GetAllLogsOf == Apply(Returns(World, StoreGetAllLogs(World, TheStore)),
                      "store.getAllLogs")

GetLogsByLevelsOf(levels) ==
  Apply(Returns(World,
                FreshArray(StoreGetLogsByLevels(World, TheStore, levels))),
        "store.getLogsByLevels")

GetLogsByTimeRangeOf(a, b) ==
  Apply(Returns(World,
                FreshArray(StoreGetLogsByTimeRange(World, TheStore, a, b))),
        "store.getLogsByTimeRange")

SearchLogsOf(text, caseSensitive) ==
  Apply(Returns(World,
                StoreSearchLogsArray(World, TheStore, text, caseSensitive)),
        "store.searchLogs")

GetRecentLogsOf(n) ==
  Apply(Returns(World, FreshArray(StoreGetRecentLogs(World, TheStore, n))),
        "store.getRecentLogs")

ReadOps ==
  {"store.getAllLogs", "store.getLogsByLevels", "store.getLogsByTimeRange",
   "store.searchLogs", "store.getRecentLogs"}

(* What the caller does to an array: push an entry, pop one, reverse it.  *)
Mutated(items, how) ==
  CASE how = "push" ->
         Append(items, [id |-> 0, level |-> "log", args |-> <<"x">>,
                        stack |-> FALSE])
    [] how = "pop" -> SubSeq(items, 1, Len(items) - 1)
    [] how = "reverse" -> [k \in DOMAIN items |-> items[Len(items) + 1 - k]]

(* Changing an array changes the store's buffer when, and only when, the   *)
(* array is the buffer object itself.                                      *)
MutateArray(w, s, arr, how) ==
  IF arr.ref = "buffer"
  THEN LET new == Mutated(w.stores[s].logs, how)
       IN Returns([w EXCEPT !.stores[s].logs = new],
                  [ref |-> "buffer", items |-> new])
  ELSE Returns(w, [ref |-> "copy", items |-> Mutated(arr.items, how)])

GetAllLogsCall == GetAllLogsOf
GetLogsByLevelsCall == \E levels \in LevelSets : GetLogsByLevelsOf(levels)
GetLogsByTimeRangeCall ==
  \E a \in {0, 2}, b \in {1, MaxEntries} : GetLogsByTimeRangeOf(a, b)
SearchLogsCall ==
  \E text \in ReadTexts, cs \in BOOLEAN : SearchLogsOf(text, cs)
GetRecentLogsCall == \E n \in -1..MaxEntries : GetRecentLogsOf(n)

(* The caller changes the array the last read returned. *)
MutateReturned ==
  \E how \in Mutations :
    /\ RetOp(ret) \in ReadOps
    /\ Apply(MutateArray(World, TheStore, RetVal(ret), how), "mutate returned")

(* The subscriber changes the array the last addLog handed it: the one     *)
(* _notifyListeners got from getAllLogs.                                   *)
MutateNotified ==
  \E how \in Mutations, k \in DOMAIN trace :
    /\ RetOp(ret) = "store.addLog"
    /\ trace[k].t = "sub"
    /\ Apply(MutateArray(World, TheStore,
                         [ref |-> StoreGetAllLogs(World, TheStore).ref,
                          items |-> trace[k].logs], how),
             "mutate notified")

NextRead ==
  \/ GetAllLogsCall \/ GetLogsByLevelsCall \/ GetLogsByTimeRangeCall
  \/ SearchLogsCall \/ GetRecentLogsCall
  \/ AddLog \/ MutateReturned \/ MutateNotified

SpecRead == InitRead /\ [][NextRead]_vars

----------------------------------------------------------------------------
(* SpecReenter: a store whose subscribers may call addLog or clearLogs on  *)
(* it from inside their notification; no interceptor is active.            *)

ReSubscribers ==
  {Probe(1), Reenter(2, TheStore, "addLog"), Reenter(2, TheStore, "clearLogs")}

InitReenter ==
  /\ console = [l \in LogLevel |-> Native(l)]
  /\ onerror = HostHandler
  /\ onrejection = NullFn
  /\ resl = <<>>
  /\ style = "none"
  /\ body = <<>>
  /\ icpts = <<>>
  /\ caps = <<>>
  /\ \E bound \in 1..MaxBound : stores = <<NewStore(bound)>>
  /\ rends = <<>>
  /\ mgrs = <<NewManager>>
  /\ nextEntry = 0
  /\ \E n \in 0..MaxThrows : budget = [p \in ProbeIds |-> IF p = 2 THEN n ELSE 0]
  /\ trace = <<>>
  /\ ret = NoRet

SubscribeRe ==
  \E sub \in ReSubscribers :
    Apply(StoreSubscribe(World, TheStore, sub), "store.subscribe")

UnsubscribeRe ==
  \E sub \in ReSubscribers :
    Apply(StoreUnsubscribe(World, TheStore, sub), "store.unsubscribe")

NextReenter ==
  \/ AddLog \/ ClearLogs \/ SetMaxLogs \/ SubscribeRe \/ UnsubscribeRe

SpecReenter == InitReenter /\ [][NextReenter]_vars

----------------------------------------------------------------------------
(* SpecRend: one OverlayRenderer, its callers and the user's clicks on the *)
(* filter buttons.                                                         *)

TheRenderer == 1
RendererOptions == {<<>>, [enabledLevels |-> {"error"}]}
FilterCallbacks == {NullFn, Probe(1), Probe(2)}

InitRend ==
  /\ console = [l \in LogLevel |-> Native(l)]
  /\ onerror = HostHandler
  /\ onrejection = NullFn
  /\ resl = <<>>
  /\ style = "none"
  /\ body = <<>>
  /\ icpts = <<>>
  /\ caps = <<>>
  /\ stores = <<>>
  /\ \E opts \in RendererOptions : rends = <<NewRenderer(opts)>>
  /\ mgrs = <<NewManager>>
  /\ nextEntry = 0
  /\ budget \in ThrowBudgets
  /\ trace = <<>>
  /\ ret = NoRet

(* The document the call finds: without a body only while none of the      *)
(* page's elements exists.                                                 *)
RendDoms == IF body = <<>> THEN {"ready", "noBody"} ELSE {"ready"}

CreateOverlayOf(dom) ==
  Apply(CreateOverlay([World EXCEPT !.dom = dom], TheRenderer),
        "createOverlay")

ShowOf(dom) ==
  Apply(RendererShow([World EXCEPT !.dom = dom], TheRenderer), "show")

ToggleOf(dom) ==
  Apply(RendererToggle([World EXCEPT !.dom = dom], TheRenderer), "toggle")

HideCall == Apply(RendererHide(World, TheRenderer), "hide")

DestroyCall == Apply(RendererDestroy(World, TheRenderer), "renderer.destroy")

IsVisibleCall ==
  Apply([World EXCEPT !.val = rends[TheRenderer].isVisible], "isVisible")

OnFilterChangeCall ==
  \E cb \in FilterCallbacks :
    Apply(RendererOnFilterChange(World, TheRenderer, cb), "onFilterChange")

FilterClickOf(level) ==
  Apply(RendererFilterClick(World, TheRenderer, level), "filterClick")

(* A click needs its button: the overlay exists. *)
FilterClick ==
  \E level \in LogLevel :
    /\ rends[TheRenderer].elements
    /\ FilterClickOf(level)

NextRend ==
  \/ \E dom \in RendDoms : CreateOverlayOf(dom)
  \/ \E dom \in RendDoms : ShowOf(dom)
  \/ \E dom \in RendDoms : ToggleOf(dom)
  \/ HideCall \/ DestroyCall \/ IsVisibleCall
  \/ OnFilterChangeCall \/ FilterClick

SpecRend == InitRend /\ [][NextRend]_vars

----------------------------------------------------------------------------
(* SpecGesture: one OverlayRenderer, its callers and the user's mouse on   *)
(* the header, the resize handle and the page.                             *)

InitGesture ==
  /\ console = [l \in LogLevel |-> Native(l)]
  /\ onerror = HostHandler
  /\ onrejection = NullFn
  /\ resl = <<>>
  /\ style = "none"
  /\ body = <<>>
  /\ icpts = <<>>
  /\ caps = <<>>
  /\ stores = <<>>
  /\ rends = <<NewRenderer(<<>>)>>
  /\ mgrs = <<NewManager>>
  /\ nextEntry = 0
  /\ budget = [p \in ProbeIds |-> 0]
  /\ trace = <<>>
  /\ ret = NoRet

(* The user's mouse.  A button that is down goes up before it goes down    *)
(* again; it goes down on the header or on the resize handle only where    *)
(* the visible panel has them (the header spans the panel, the handle sits *)
(* at its right edge), or else on the page.                                *)
PointerXs == {20, 220, 420}
MaxWidth == 800   \* the user stops enlarging the panel at this width

Pressed(target) == [World EXCEPT !.rends[TheRenderer].pointer = target]

OnPanel(x) ==
  /\ rends[TheRenderer].elements
  /\ ~rends[TheRenderer].hidden
  /\ rends[TheRenderer].left <= x
  /\ x <= rends[TheRenderer].left + rends[TheRenderer].width

MouseDownHeader ==
  \E x \in PointerXs :
    /\ rends[TheRenderer].pointer = "up"
    /\ OnPanel(x)
    /\ Apply(RendererStartDrag(Pressed("header"), TheRenderer, x),
             "mousedown header")

MouseDownHandle ==
  \E x \in PointerXs :
    /\ rends[TheRenderer].pointer = "up"
    /\ OnPanel(x)
    /\ x = rends[TheRenderer].left + rends[TheRenderer].width
    /\ Apply(RendererStartResize(Pressed("handle"), TheRenderer, x),
             "mousedown handle")

MouseDownPage ==
  /\ rends[TheRenderer].pointer = "up"
  /\ Apply(Pressed("page"), "mousedown page")

MouseMoveOf(x) == Apply(RendererMouseMove(World, TheRenderer, x), "mousemove")

MouseMove ==
  \E x \in PointerXs :
    /\ RendererMouseMove(World, TheRenderer, x).rends[TheRenderer].width
         <= MaxWidth
    /\ MouseMoveOf(x)

MouseUp ==
  /\ rends[TheRenderer].pointer # "up"
  /\ Apply(RendererMouseUp(Pressed("up"), TheRenderer), "mouseup")

NextGesture ==
  \/ CreateOverlayOf("ready") \/ ShowOf("ready") \/ HideCall \/ DestroyCall
  \/ MouseDownHeader \/ MouseDownHandle \/ MouseDownPage
  \/ MouseMove \/ MouseUp

SpecGesture == InitGesture /\ [][NextGesture]_vars

----------------------------------------------------------------------------
(* Properties.  trace holds what the last top-level call did, ret how it   *)
(* ended.                                                                  *)

Min(a, b) == IF a <= b THEN a ELSE b

StateVars ==
  <<console, onerror, onrejection, resl, style, body, icpts, caps, stores,
    rends, mgrs, nextEntry, budget>>

(* C1: a store with bound M >= 1 that has only been handed entries through *)
(* addLog, N of them, holds exactly the min(N, M) most recent ones, in     *)
(* call order.                                                             *)
C1_BoundedBuffer ==
  \A s \in DOMAIN stores :
    (stores[s].pure /\ stores[s].maxLogs >= 1) =>
      /\ Len(stores[s].logs) = Min(Len(stores[s].added), stores[s].maxLogs)
      /\ stores[s].logs = LastN(stores[s].added, stores[s].maxLogs)

C1_Witness ==
  /\ RetOp(ret) = "store.addLog"
  /\ stores[TheStore].pure
  /\ stores[TheStore].maxLogs = 2
  /\ Len(stores[TheStore].added) > 2

(* C2: a console call of level L with arguments A that reaches an          *)
(* interceptor's wrapper invokes every callback registered on that         *)
(* interceptor exactly once, with an entry of level L and arguments A,     *)
(* whether or not other callbacks throw, and after all of them the         *)
(* original method of L exactly once with A; the call itself raises        *)
(* nothing.                                                                *)
C2_Transparent ==
  (RetOp(ret) = "console" /\ trace # <<>> /\ trace[1].t = "console") =>
    LET i == trace[1].i
        l == trace[1].l
        a == trace[1].args
        orig == {k \in DOMAIN trace :
                   trace[k].t = "native" /\ trace[k].l = l
                     /\ trace[k].args = a}
        fwd == {k \in DOMAIN trace :
                  trace[k].t = "forward" /\ trace[k].i = i}
        ran(cb) == {k \in DOMAIN trace :
                      trace[k].t = "cb" /\ trace[k].c = trace[2].c
                        /\ trace[k].who = cb}
    IN /\ RetExc(ret) = "none"
       /\ trace[2].t = "call" /\ trace[2].i = i
       /\ Cardinality(orig) = 1
       /\ Cardinality(fwd) = 1
       /\ \A k \in fwd : trace[k].l = l /\ trace[k].args = a
       /\ \A n \in DOMAIN icpts[i].callbacks :
            /\ Cardinality(ran(icpts[i].callbacks[n])) = 1
            /\ \A k \in ran(icpts[i].callbacks[n]) :
                 /\ trace[k].e.level = l
                 /\ trace[k].e.args = a
                 /\ \A o \in orig \cup fwd : k < o

C2_Witness ==
  /\ RetOp(ret) = "console"
  /\ trace # <<>> /\ trace[1].t = "console"
  /\ Len(icpts[trace[1].i].callbacks) = 2
  /\ \E k \in DOMAIN trace :
       trace[k].t = "native" /\ trace[k].args[1] = "callbackError"

(* C3: when an interceptor that is intercepting is stopped, each of the    *)
(* five console slots holds the very function it held before the           *)
(* interceptor was created.                                                *)
C3_Restored ==
  [][\A i \in DOMAIN icpts :
       (icpts[i].isIntercepting /\ ~icpts'[i].isIntercepting) =>
         \A l \in LogLevel : console'[l] = icpts[i].target[l]]_vars

(* C4: every addLog and clearLogs, nested ones included, invokes each      *)
(* subscriber registered at that moment exactly once, with the sequence    *)
(* the operation left, whether or not other subscribers throw, and ends    *)
(* without raising.                                                        *)
C4_ListenerIsolation ==
  /\ RetOp(ret) \in {"store.addLog", "store.clearLogs"} => RetExc(ret) = "none"
  /\ \A k \in DOMAIN trace :
       trace[k].t = "op" =>
         /\ \E j \in DOMAIN trace :
              trace[j].t = "opend" /\ trace[j].c = trace[k].c
                /\ trace[j].exc = "none" /\ j > k
         /\ \A n \in DOMAIN trace[k].subs :
              LET runs == {j \in DOMAIN trace :
                             trace[j].t = "sub" /\ trace[j].c = trace[k].c
                               /\ trace[j].who = trace[k].subs[n]}
              IN /\ Cardinality(runs) = 1
                 /\ \A j \in runs : j > k /\ trace[j].logs = trace[k].post

C4_Witness ==
  /\ RetOp(ret) \in {"store.addLog", "store.clearLogs"}
  /\ Len(stores[TheStore].listeners) = 2
  /\ \E k \in DOMAIN trace :
       trace[k].t = "native" /\ trace[k].args[1] = "listenerError"

(* C5: the report of a listener failure never goes through an installed    *)
(* interceptor wrapper.                                                    *)
C5_ReportsBypass ==
  \A k \in DOMAIN trace :
    trace[k].t = "console" =>
      trace[k].args[1] \notin
        {"listenerError", "callbackError", "captureCallbackError"}

Guarded ==
  {"open", "close", "toggle", "addLog", "clearLogs", "updateOptions",
   "searchLogs", "getLogsByTimeRange", "exportLogs"}

(* C6, as stated: on an uninitialized manager each of the ten operations   *)
(* raises not-initialized and changes nothing.                             *)
C6_AllRaise ==
  [][(~mgrs[Mgr].isInit /\ RetOp(ret') \in Guarded \cup {"getOptions"}) =>
       (RetExc(ret') = "NotInitialized" /\ UNCHANGED StateVars)]_vars

(* C6, amended: on an uninitialized manager open, close, toggle, addLog,   *)
(* clearLogs, updateOptions, searchLogs, getLogsByTimeRange and exportLogs *)
(* raise not-initialized and change nothing; getOptions returns the        *)
(* current options without raising, and changes nothing.                   *)
C6_Uninitialized ==
  [][~mgrs[Mgr].isInit =>
       /\ RetOp(ret') \in Guarded =>
            (RetExc(ret') = "NotInitialized" /\ UNCHANGED StateVars)
       /\ RetOp(ret') = "getOptions" =>
            /\ RetExc(ret') = "none"
            /\ RetVal(ret') = mgrs[Mgr].options
            /\ UNCHANGED StateVars]_vars

C6_Witness ==
  /\ ~mgrs[Mgr].isInit
  /\ Len(stores) > 0
  /\ RetOp(ret) = "clearLogs"
  /\ RetExc(ret) = "NotInitialized"

C8_InitTwice ==
  [][(mgrs[Mgr].isInit /\ mgrs[Mgr].initCalls >= 2 /\ RetOp(ret') = "console") =>
       /\ Len(body') = 1
       /\ style' # "none"
       /\ Len(icpts'[mgrs[Mgr].icpt].callbacks) = 1
       /\ Len(stores'[mgrs[Mgr].store].listeners) = 1
       /\ Cardinality({k \in DOMAIN trace' : trace'[k].t = "op"}) = 1
       /\ Cardinality({k \in DOMAIN trace' : trace'[k].t = "render"}) = 1
    ]_vars

(* C9: init() on an initialized manager leaves the options, the component  *)
(* instances, the visibility and the store's buffer unchanged.             *)
C9_InitNoOp ==
  [][(mgrs[Mgr].isInit /\ RetOp(ret') = "init") =>
       /\ mgrs'[Mgr].options = mgrs[Mgr].options
       /\ mgrs'[Mgr].icpt = mgrs[Mgr].icpt
       /\ mgrs'[Mgr].store = mgrs[Mgr].store
       /\ mgrs'[Mgr].rend = mgrs[Mgr].rend
       /\ mgrs'[Mgr].cap = mgrs[Mgr].cap
       /\ rends'[mgrs[Mgr].rend].isVisible = rends[mgrs[Mgr].rend].isVisible
       /\ stores'[mgrs[Mgr].store].logs = stores[mgrs[Mgr].store].logs
    ]_vars

(* C10: destroy() on an uninitialized manager changes nothing, does        *)
(* nothing and raises nothing; on a manager that is uninitialized again    *)
(* after init() and destroy(), isVisible returns false and addLog raises   *)
(* not-initialized.                                                        *)
C10_Destroy ==
  [][~mgrs[Mgr].isInit =>
       /\ RetOp(ret') = "destroy" =>
            (RetExc(ret') = "none" /\ trace' = <<>> /\ UNCHANGED StateVars)
       /\ RetOp(ret') = "isVisible" => (RetExc(ret') = "none" /\ RetVal(ret') = FALSE)
       /\ RetOp(ret') = "addLog" => RetExc(ret') = "NotInitialized"]_vars

C10_Witness ==
  /\ ~mgrs[Mgr].isInit
  /\ Len(stores) > 0
  /\ RetOp(ret) = "addLog"
  /\ RetExc(ret) = "NotInitialized"

(* C11: destroy() on an initialized manager leaves it uninitialized, puts  *)
(* back in window.onerror and window.onunhandledrejection the handlers     *)
(* that were there before init(), and leaves neither an overlay container  *)
(* nor the style element in the document; its own console output, and      *)
(* every console call made while the manager is uninitialized, reaches     *)
(* neither a store nor a renderer.                                         *)
C11_Teardown ==
  [][/\ (mgrs[Mgr].isInit /\ RetOp(ret') = "destroy") =>
          /\ RetExc(ret') = "none"
          /\ ~mgrs'[Mgr].isInit
          /\ onerror' = caps[mgrs[Mgr].cap].origErr
          /\ onrejection' = caps[mgrs[Mgr].cap].origRej
          /\ body' = <<>>
          /\ style' = "none"
          /\ \A k \in DOMAIN trace' : trace'[k].t \notin {"op", "render"}
     /\ (~mgrs[Mgr].isInit /\ RetOp(ret') = "console") =>
          /\ \A k \in DOMAIN trace' : trace'[k].t \notin {"op", "render"}
          /\ stores' = stores
          /\ rends' = rends]_vars

C11_Witness ==
  /\ ~mgrs[Mgr].isInit
  /\ Len(stores) > 0
  /\ RetOp(ret) = "console"
  /\ \E k \in DOMAIN trace : trace[k].t = "native"

(* C12: an init() that raises re-raises the error of the failed step and   *)
(* leaves the manager uninitialized with its four components dropped, no   *)
(* interceptor intercepting and no wrapper in a console slot, the window   *)
(* handlers as they were before the call, and neither an overlay container *)
(* nor the style element in the document; an init() that does not raise    *)
(* leaves the manager initialized.                                         *)
C12_InitRollback ==
  [][(~mgrs[Mgr].isInit /\ RetOp(ret') = "init") =>
       /\ RetExc(ret') = "none" => mgrs'[Mgr].isInit
       /\ RetExc(ret') # "none" =>
            /\ RetExc(ret') = "TypeError"
            /\ ~mgrs'[Mgr].isInit
            /\ mgrs'[Mgr].icpt = 0 /\ mgrs'[Mgr].store = 0
            /\ mgrs'[Mgr].rend = 0 /\ mgrs'[Mgr].cap = 0
            /\ \A i \in DOMAIN icpts' : ~icpts'[i].isIntercepting
            /\ \A l \in LogLevel : console'[l].k # "wrapper"
            /\ \A c \in DOMAIN caps' : ~caps'[c].isActive
            /\ onerror' = onerror
            /\ onrejection' = onrejection
            /\ body' = <<>>
            /\ style' = "none"]_vars

C12_Witness ==
  /\ RetOp(ret) = "init"
  /\ RetExc(ret) = "TypeError"
  /\ ~mgrs[Mgr].isInit
  /\ \E k \in DOMAIN trace :
       trace[k].t = "console" /\ trace[k].args[1] = "initError"

(* C13: after init({maxLogs: M}) with M >= 1 followed only by N console    *)
(* calls of the application, the manager's store holds exactly the last    *)
(* min(N, M) of those calls' entries, in call order, and nothing else;     *)
(* clearLogs() leaves the store and the renderer's visible list empty.     *)
C13_EndToEnd ==
  [][/\ mgrs'[Mgr].isInit =>
          LET st == stores'[mgrs'[Mgr].store]
              app == SelectSeq(st.added, LAMBDA e : e.args \in AppArgs)
          IN (/\ st.pure
              /\ st.maxLogs >= 1
              /\ mgrs'[Mgr].initCalls = 1
              /\ \A k \in DOMAIN st.added :
                   st.added[k].args \notin ManualArgs \cup {<<"globalError">>})
             => st.logs = LastN(app, st.maxLogs)
     /\ (mgrs[Mgr].isInit /\ RetOp(ret') = "clearLogs"
           /\ RetExc(ret') = "none") =>
          /\ stores'[mgrs[Mgr].store].logs = <<>>
          /\ rends'[mgrs[Mgr].rend].rendered = <<>>]_vars

(* C14: updateOptions({maxLogs: n}) with n <= 0 on an initialized manager  *)
(* raises and leaves the manager's options and the store's bound and       *)
(* buffer as they were.                                                    *)
C14_InvalidMaxLogs ==
  [][\A o \in UpdateOptionsArgs :
       (/\ "maxLogs" \in DOMAIN o
        /\ o.maxLogs <= 0
        /\ mgrs[Mgr].isInit
        /\ Apply(MgrUpdateOptions(World, Mgr, o, 0), "updateOptions"))
       => /\ RetExc(ret') # "none"
          /\ mgrs'[Mgr].options = mgrs[Mgr].options
          /\ stores'[mgrs[Mgr].store].maxLogs = stores[mgrs[Mgr].store].maxLogs
          /\ stores'[mgrs[Mgr].store].logs = stores[mgrs[Mgr].store].logs]_vars

(* C15: LogStore.setMaxLogs(n) with n <= 0 raises an invalid-argument      *)
(* error, notifies no subscriber, and leaves the store's bound, its buffer *)
(* and its subscriber set as they were.                                    *)
C15_RejectsNonPositive ==
  [][\A n \in -1..MaxBound :
       (/\ n <= 0
        /\ Apply(StoreSetMaxLogs(World, TheStore, n, 0), "store.setMaxLogs"))
       => /\ RetExc(ret') = "InvalidMaxLogs"
          /\ \A k \in DOMAIN trace' : trace'[k].t # "sub"
          /\ stores'[TheStore].maxLogs = stores[TheStore].maxLogs
          /\ stores'[TheStore].logs = stores[TheStore].logs
          /\ stores'[TheStore].listeners = stores[TheStore].listeners]_vars

C15_Witness ==
  /\ RetOp(ret) = "store.setMaxLogs"
  /\ RetExc(ret) = "InvalidMaxLogs"
  /\ Len(stores[TheStore].logs) = stores[TheStore].maxLogs
  /\ Len(stores[TheStore].listeners) > 0

(* The entries a call handed to addLog, in order, read off its trace. *)
AddedDuring(tr) ==
  LET ops == SelectSeq(tr, LAMBDA ev : ev.t = "op")
      adds == SelectSeq(ops, LAMBDA ev : ev.op = "addLog" /\ ev.post # <<>>)
  IN [k \in DOMAIN adds |-> adds[k].post[Len(adds[k].post)]]

Suffix(s, n) ==
  [k \in 1..Min(n, Len(s)) |-> s[Len(s) - Min(n, Len(s)) + k]]

(* C17: setMaxLogs(n) with 0 < n on a store holding k entries leaves, when *)
(* n < k, exactly the n most recently added entries in their original      *)
(* order (entries that failure reports of this very call add count as      *)
(* added), and leaves the buffer unchanged when n >= k; the bound is n.    *)
C17_ShrinkKeepsRecent ==
  [][\A n \in -1..MaxBound :
       (/\ n > 0
        /\ Apply(StoreSetMaxLogs(World, TheStore, n, 0), "store.setMaxLogs"))
       => /\ RetExc(ret') = "none"
          /\ stores'[TheStore].maxLogs = n
          /\ n >= Len(stores[TheStore].logs) =>
               stores'[TheStore].logs = stores[TheStore].logs
          /\ n < Len(stores[TheStore].logs) =>
               /\ stores'[TheStore].logs =
                    Suffix(stores[TheStore].logs \o AddedDuring(trace'), n)
               /\ trace'[1].post =
                    SubSeq(stores[TheStore].logs,
                           Len(stores[TheStore].logs) - n + 1,
                           Len(stores[TheStore].logs))]_vars

C17_Witness ==
  /\ RetOp(ret) = "store.setMaxLogs"
  /\ RetExc(ret) = "none"
  /\ trace # <<>>
  /\ trace[1].t = "op"
  /\ trace[1].op = "setMaxLogs"
  /\ stores[TheStore].logs = trace[1].post
  /\ Len(stores[TheStore].logs) = stores[TheStore].maxLogs

(* C18: setMaxLogs(n) with n > 0 notifies each subscriber exactly once,    *)
(* with the sequence left after the eviction, when it evicted at least one *)
(* entry, and notifies nobody when it evicted nothing.                     *)
C18_NotifyOnEviction ==
  [][\A n \in -1..MaxBound :
       (/\ n > 0
        /\ Apply(StoreSetMaxLogs(World, TheStore, n, 0), "store.setMaxLogs"))
       => LET old == stores[TheStore]
          IN /\ n >= Len(old.logs) => trace' = <<>>
             /\ n < Len(old.logs) =>
                  \A m \in DOMAIN old.listeners :
                    LET runs == {j \in DOMAIN trace' :
                                   /\ trace'[j].t = "sub"
                                   /\ trace'[j].c = 1
                                   /\ trace'[j].who = old.listeners[m]}
                    IN /\ Cardinality(runs) = 1
                       /\ \A j \in runs :
                            trace'[j].logs = Suffix(old.logs, n)]_vars

C18_Witness ==
  /\ RetOp(ret) = "store.setMaxLogs"
  /\ RetExc(ret) = "none"
  /\ Len(stores[TheStore].listeners) = 2
  /\ Cardinality({j \in DOMAIN trace : trace[j].t = "sub" /\ trace[j].c = 1}) = 2
  /\ \E j \in DOMAIN trace : trace[j].t = "op" /\ trace[j].op = "setMaxLogs"

(* C16: init({maxLogs: n}) with n <= 0 fails fast: it raises to the caller *)
(* and leaves the manager uninitialized, so that an initialized manager    *)
(* never uses a store whose bound is not positive.                         *)
C16_InitFailsFast ==
  [][/\ \A opts \in InitOptions, dom \in DomStates :
          (/\ ~mgrs[Mgr].isInit
           /\ "maxLogs" \in DOMAIN opts
           /\ opts.maxLogs <= 0
           /\ Apply(MgrInit([World EXCEPT !.dom = dom], Mgr, opts, 0), "init"))
          => /\ RetExc(ret') # "none"
             /\ ~mgrs'[Mgr].isInit
     /\ mgrs'[Mgr].isInit => stores'[mgrs'[Mgr].store].maxLogs >= 1]_vars

(* The store's bound agrees with the manager's options. *)
BoundFollowsOptions(m, st) ==
  st[m.store].maxLogs =
    IF "maxLogs" \in DOMAIN m.options THEN m.options.maxLogs
    ELSE DefaultMaxLogs

(* C19: a maxLogs change propagates to the store: an updateOptions call    *)
(* that returns without raising, made when the store's bound agrees with   *)
(* the manager's options, leaves the store's bound equal to the manager's  *)
(* options.maxLogs, or to 1000 when options.maxLogs is unset.              *)
C19_MaxLogsPropagates ==
  [][(/\ mgrs[Mgr].isInit
      /\ BoundFollowsOptions(mgrs[Mgr], stores)
      /\ RetOp(ret') = "updateOptions"
      /\ RetExc(ret') = "none")
     => BoundFollowsOptions(mgrs'[Mgr], stores')]_vars

(* C20: interceptor callback isolation: whichever of the registered        *)
(* callbacks throw during one intercepted console call, every registered   *)
(* callback is invoked exactly once for that call, every throw is followed *)
(* at once by its own failure report, the original console method is       *)
(* invoked exactly once, and the caller of console sees no exception.      *)
C20_CallbackIsolation ==
  [][(RetOp(ret') = "console" /\ trace' # <<>> /\ trace'[1].t = "console") =>
       LET cbs == icpts[trace'[1].i].callbacks
           ran(n) == {k \in DOMAIN trace' :
                        /\ trace'[k].t = "cb"
                        /\ trace'[k].c = trace'[2].c
                        /\ trace'[k].who = cbs[n]}
           reported == {k \in DOMAIN trace' :
                          /\ trace'[k].t = "cb"
                          /\ k < Len(trace')
                          /\ trace'[k + 1].t \in {"native", "console"}
                          /\ trace'[k + 1].args[1] = "callbackError"}
           thrown(p) == budget[p] - budget'[p]
       IN /\ RetExc(ret') = "none"
          /\ trace'[2].t = "call"
          /\ \A n \in DOMAIN cbs : Cardinality(ran(n)) = 1
          /\ \A p \in ProbeIds :
               Cardinality({k \in reported : trace'[k].who = Probe(p)})
                 = thrown(p)
          /\ Cardinality({k \in DOMAIN trace' :
                            /\ trace'[k].t = "native"
                            /\ trace'[k].l = trace'[1].l
                            /\ trace'[k].args = trace'[1].args}) = 1]_vars

C20_Witness ==
  /\ RetOp(ret) = "console"
  /\ RetExc(ret) = "none"
  /\ trace # <<>> /\ trace[1].t = "console"
  /\ Cardinality({k \in DOMAIN trace : trace[k].t = "cb"}) = 2
  /\ Cardinality({k \in DOMAIN trace :
                    /\ trace[k].t = "native"
                    /\ trace[k].args[1] = "callbackError"}) = 2
  /\ trace[Len(trace)].t = "native"
  /\ trace[Len(trace)].args = trace[1].args

(* C21: startIntercepting() on an interceptor that is already intercepting *)
(* changes nothing, so that a console call made next still notifies each   *)
(* registered callback exactly once and reaches the native method exactly  *)
(* once; stopIntercepting() on an interceptor that is not intercepting     *)
(* leaves the console's method slots as they were.                         *)
C21_StartStopIdempotent ==
  [][\A i \in DOMAIN icpts :
       /\ (/\ icpts[i].isIntercepting
           /\ Apply(StartIntercepting(World, i), "startIntercepting again"))
          => /\ StateVars' = StateVars
             /\ \A l \in LogLevel :
                  console[l] = Wrapper(i, l) =>
                    LET tr == Exec(World, Call(console[l], <<"a", "1">>), 0).trace
                    IN /\ \A n \in DOMAIN icpts[i].callbacks :
                            Cardinality({k \in DOMAIN tr :
                                           /\ tr[k].t = "cb"
                                           /\ tr[k].c = tr[2].c
                                           /\ tr[k].who = icpts[i].callbacks[n]})
                              = 1
                       /\ Cardinality({k \in DOMAIN tr :
                                         /\ tr[k].t = "native"
                                         /\ tr[k].l = l
                                         /\ tr[k].args = <<"a", "1">>}) = 1
       /\ (/\ ~icpts[i].isIntercepting
           /\ Apply(StopIntercepting(World, i), "stopIntercepting again"))
          => /\ console' = console
             /\ icpts' = icpts]_vars

C21_Witness ==
  /\ RetOp(ret) = "startIntercepting again"
  /\ \E i \in DOMAIN icpts :
       /\ icpts[i].isIntercepting
       /\ Len(icpts[i].callbacks) = 2
       /\ console["log"] = Wrapper(i, "log")

(* C22 as stated: manualLog(level, args) notifies every registered         *)
(* callback exactly once with an entry of that level and those args and    *)
(* makes no call at all to a console method, original or patched, whatever *)
(* the callbacks do.                                                       *)
C22_NoConsoleCall ==
  [][\A i \in DOMAIN icpts, a \in UnitArgs :
       Apply(ManualLog(World, i, "warn", a, 0), "manualLog") =>
         /\ \A n \in DOMAIN icpts[i].callbacks :
              Cardinality({k \in DOMAIN trace' :
                             /\ trace'[k].t = "cb"
                             /\ trace'[k].c = trace'[1].c
                             /\ trace'[k].who = icpts[i].callbacks[n]
                             /\ trace'[k].e.level = "warn"
                             /\ trace'[k].e.args = a}) = 1
         /\ \A k \in DOMAIN trace' :
              trace'[k].t \notin {"native", "console", "forward"}]_vars

(* C22 amended: manualLog(level, args) raises nothing, notifies every      *)
(* registered callback exactly once with an entry of that level and those  *)
(* args, and never hands the logged arguments to a console method,         *)
(* original or patched, whether or not interception is active; the only    *)
(* console calls it makes are the failure reports, one directly after each *)
(* callback that throws.                                                   *)
C22_ManualLogBypasses ==
  [][\A i \in DOMAIN icpts, a \in UnitArgs :
       Apply(ManualLog(World, i, "warn", a, 0), "manualLog") =>
         LET reported == {k \in DOMAIN trace' :
                            /\ trace'[k].t = "cb"
                            /\ k < Len(trace')
                            /\ trace'[k + 1].t \in {"native", "console"}
                            /\ trace'[k + 1].args[1] = "callbackError"}
         IN /\ RetExc(ret') = "none"
            /\ \A n \in DOMAIN icpts[i].callbacks :
                 Cardinality({k \in DOMAIN trace' :
                                /\ trace'[k].t = "cb"
                                /\ trace'[k].c = trace'[1].c
                                /\ trace'[k].who = icpts[i].callbacks[n]
                                /\ trace'[k].e.level = "warn"
                                /\ trace'[k].e.args = a}) = 1
            /\ \A k \in DOMAIN trace' :
                 trace'[k].t \in {"native", "console", "forward"} =>
                   /\ trace'[k].args # a
                   /\ trace'[k].args[1] = "callbackError"
            /\ \A p \in ProbeIds :
                 Cardinality({k \in reported : trace'[k].who = Probe(p)})
                   = budget[p] - budget'[p]]_vars

C22_Witness ==
  /\ RetOp(ret) = "manualLog"
  /\ RetExc(ret) = "none"
  /\ \A i \in DOMAIN icpts : ~icpts[i].isIntercepting
  /\ Cardinality({k \in DOMAIN trace : trace[k].t = "cb"}) = 2
  /\ Cardinality({k \in DOMAIN trace : trace[k].t = "native"}) = 1

(* The entries the host's events of one call delivered to manager m, in    *)
(* order: those its interceptor made of console and addLog calls and those *)
(* its capturer made of error events.                                      *)
Delivered(tr, m) ==
  LET evs == SelectSeq(tr, LAMBDA ev :
                \/ ev.t = "call" /\ ev.i = m.icpt
                \/ ev.t = "captured" /\ ev.cp = m.cap)
  IN [k \in DOMAIN evs |-> evs[k].e]

(* C23: a console call, a Manager.addLog call or a captured error event    *)
(* delivered to an initialized manager leaves in the store's buffer the    *)
(* old buffer followed by the delivered entries in delivery order, less    *)
(* some entries evicted from the front, and leaves the rendered list equal *)
(* to the entries of that buffer that pass the active filters.             *)
C23_Ordering ==
  [][(/\ mgrs[Mgr].isInit
      /\ mgrs'[Mgr].isInit
      /\ RetOp(ret') \in {"console", "addLog", "onerror"})
     => LET all == stores[mgrs[Mgr].store].logs \o Delivered(trace', mgrs[Mgr])
            now == stores'[mgrs[Mgr].store].logs
            rd  == rends'[mgrs[Mgr].rend]
        IN /\ Len(now) <= Len(all)
           /\ now = Suffix(all, Len(now))
           /\ rd.rendered = SelectEntries(now, rd.filters)]_vars

(* The callbacks of cbs that the events of tr show to have been handed     *)
(* entry e, each with the number of times it was.                          *)
HandedTo(tr, cb, e) ==
  Cardinality({k \in DOMAIN tr :
                 \/ /\ tr[k].t = "cb"
                    /\ tr[k].who = cb
                    /\ tr[k].e = e
                 \/ /\ tr[k].t = "op"
                    /\ tr[k].op = "addLog"
                    /\ cb = StoreAdd(tr[k].s)
                    /\ tr[k].post # <<>>
                    /\ tr[k].post[Len(tr[k].post)] = e})

C25_StartStopRestores ==
  [][LET cp  == caps[TheCapturer]
         cp2 == caps'[TheCapturer]
     IN /\ (~cp.isActive /\ cp2.isActive) =>
             /\ cp2.origErr = onerror
             /\ cp2.origRej = onrejection
        /\ (cp.isActive /\ cp2.isActive) =>
             /\ cp2.origErr = cp.origErr
             /\ cp2.origRej = cp.origRej
        /\ (cp.isActive /\ ~cp2.isActive) =>
             /\ onerror' = cp.origErr
             /\ onrejection' = cp.origRej
        /\ (/\ cp.isActive
            /\ Apply(CapStart(World, TheCapturer), "capturer.start"))
           => StateVars' = StateVars
        /\ (/\ ~cp.isActive
            /\ Apply(CapStop(World, TheCapturer), "capturer.stop"))
           => StateVars' = StateVars
        /\ ~cp2.isActive =>
             /\ onerror' \in {HostHandler, NullFn}
             /\ onrejection' \in {HostHandler, NullFn}]_vars

C25_Witness ==
  /\ RetOp(ret) = "capturer.stop"
  /\ ~caps[TheCapturer].isActive
  /\ onerror = NullFn
  /\ onrejection = HostHandler
  /\ nextEntry > 0
  /\ Len(resl) > 1

(* C26: getLogsByLevels(levels) returns exactly the entries of the buffer  *)
(* whose level is in levels, in buffer order; an empty level set gives an  *)
(* empty result, not every entry.                                          *)
C26_ByLevels ==
  [][\A levels \in LevelSets :
       GetLogsByLevelsOf(levels) =>
         /\ RetVal(ret').items =
              SelectSeq(stores[TheStore].logs, LAMBDA e : e.level \in levels)
         /\ levels = {} => RetVal(ret').items = <<>>]_vars

C26_Witness ==
  /\ RetOp(ret) = "store.getLogsByLevels"
  /\ Len(RetVal(ret).items) = 2
  /\ Len(stores[TheStore].logs) = 3
  /\ stores[TheStore].logs[2] \notin {RetVal(ret).items[k] : k \in 1..2}

(* What an entry's arguments read as, joined by single spaces, for the     *)
(* argument lists the buffers are drawn from.                              *)
ContentOf(e) ==
  CASE e.args = <<"A", "b">> -> <<"A", " ", "b">>
    [] e.args = <<"a">> -> <<"a">>
    [] e.args = <<"poison">> ->
         <<"[", "O", "b", "j", "e", "c", "t", ":", " ", "o", "b", "j", "e",
           "c", "t", "]">>

Fold(str) ==
  [k \in DOMAIN str |->
     IF str[k] = "A" THEN "a" ELSE IF str[k] = "O" THEN "o" ELSE str[k]]

Contains(str, part) ==
  \E a \in 1..(Len(str) + 1), b \in 0..Len(str) :
    /\ b - a + 1 = Len(part)
    /\ \A k \in 1..Len(part) : str[a + k - 1] = part[k]

C28_DefensiveCopies ==
  [][RetOp(ret') \in {"mutate returned", "mutate notified"} =>
       stores' = stores]_vars

C28_Witness ==
  /\ RetOp(ret) = "mutate notified"
  /\ Len(stores[TheStore].logs) = 2
  /\ RetVal(ret).items # stores[TheStore].logs
  /\ Len(RetVal(ret).items) = 2

(* C29: the renderer's visibility state machine.  In every state           *)
(* isVisible() is true iff the overlay exists and its container does not   *)
(* carry the hidden marker, and the document holds the renderer's          *)
(* container once if the overlay exists and not at all otherwise; a newly  *)
(* created overlay is hidden; show() and hide() are idempotent; toggle()   *)
(* twice restores the visibility; show() without an overlay creates        *)
(* exactly one container and shows it (in a document that has no body yet  *)
(* it raises and creates none); createOverlay() on an existing overlay     *)
(* changes nothing.                                                        *)
C29_Visibility ==
  [][LET r  == rends[TheRenderer]
         r2 == rends'[TheRenderer]
         st(w) == <<w.rends, w.body>>
     IN /\ r2.isVisible <=> (r2.elements /\ ~r2.hidden)
        /\ Cardinality({k \in DOMAIN body' : body'[k] = TheRenderer})
             = IF r2.elements THEN 1 ELSE 0
        /\ (~r.elements /\ r2.elements /\ RetOp(ret') = "createOverlay")
             => r2.hidden /\ ~r2.isVisible
        /\ \A dom \in RendDoms :
             LET w0 == [World EXCEPT !.dom = dom]
                 shown  == RendererShow(w0, TheRenderer)
                 hidden == RendererHide(w0, TheRenderer)
                 twice  == RendererToggle(RendererToggle(w0, TheRenderer),
                                          TheRenderer)
             IN /\ st(RendererShow(shown, TheRenderer)) = st(shown)
                /\ st(RendererHide(hidden, TheRenderer)) = st(hidden)
                /\ twice.rends[TheRenderer].isVisible = r.isVisible
                /\ (~r.elements /\ ShowOf(dom)) =>
                     IF RetExc(ret') = "none"
                     THEN /\ r2.elements /\ r2.isVisible
                          /\ body' = Append(body, TheRenderer)
                     ELSE /\ dom = "noBody"
                          /\ ~r2.elements /\ ~r2.isVisible
                          /\ body' = body
                /\ (r.elements /\ CreateOverlayOf(dom)) =>
                     StateVars' = StateVars]_vars

C29_Witness ==
  /\ RetOp(ret) = "toggle"
  /\ RetExc(ret) = "none"
  /\ rends[TheRenderer].elements
  /\ rends[TheRenderer].hidden
  /\ ~rends[TheRenderer].isVisible
  /\ body = <<TheRenderer>>

(* C30: a click on the filter button of a level flips that level's         *)
(* membership in the active-filter set and no other's, leaves every        *)
(* button's active marker equal to its level's membership, and invokes the *)
(* registered filter-change callback exactly once, with the resulting set; *)
(* a second click on the same button restores the set.                     *)
C30_FilterClick ==
  [][\A level \in LogLevel :
       (rends[TheRenderer].elements /\ FilterClickOf(level)) =>
         LET r  == rends[TheRenderer]
             r2 == rends'[TheRenderer]
             calls == {k \in DOMAIN trace' : trace'[k].t = "filterChange"}
             again == RendererFilterClick(
                        RendererFilterClick(World, TheRenderer, level),
                        TheRenderer, level)
         IN /\ (level \in r2.filters) <=> (level \notin r.filters)
            /\ r2.filters \ {level} = r.filters \ {level}
            /\ r2.active = r2.filters
            /\ r.onFilter = NullFn => calls = {}
            /\ r.onFilter # NullFn =>
                 /\ Cardinality(calls) = 1
                 /\ \A k \in calls :
                      /\ trace'[k].who = r.onFilter
                      /\ trace'[k].levels = r2.filters
            /\ again.rends[TheRenderer].filters = r.filters
            /\ again.rends[TheRenderer].active = r.active]_vars

C30_Witness ==
  /\ RetOp(ret) = "filterClick"
  /\ trace # <<>>
  /\ trace[1].t = "filterChange"
  /\ trace[1].levels = {"log", "error"}
  /\ rends[TheRenderer].filters = {"log", "error"}

(* C31: gesture state is valid only during a gesture.  The position of the *)
(* panel changes only by a pointer move made while the button is held down *)
(* on the header, its size only by a move made while the button is held    *)
(* down on the resize handle, and after every pointer-up isDragging and    *)
(* isResizing are both false, also when destroy() and a re-creation of the *)
(* overlay fall into a gesture.                                            *)
C31_GestureOnly ==
  [][LET r  == rends[TheRenderer]
         r2 == rends'[TheRenderer]
     IN /\ (r.elements /\ r2.elements /\ r2.left # r.left) =>
             (RetOp(ret') = "mousemove" /\ r.pointer = "header")
        /\ (r.elements /\ r2.elements /\ r2.width # r.width) =>
             (RetOp(ret') = "mousemove" /\ r.pointer = "handle")
        /\ RetOp(ret') = "mouseup" => (~r2.drag.on /\ ~r2.resize.on)]_vars

(* C32: no feedback loop.  While the interceptor whose callback appends to *)
(* the store is intercepting, one console call returns normally, runs the  *)
(* interceptor once and appends exactly one entry to the store, whatever   *)
(* the store's subscribers do: the report of a subscriber's failure does   *)
(* not come back through the interceptor.                                  *)
C32_NoFeedbackLoop ==
  [][(RetOp(ret') = "console" /\ icpts[TheIcpt].isIntercepting) =>
       /\ RetExc(ret') = "none"
       /\ Cardinality({k \in DOMAIN trace' : trace'[k].t = "console"}) = 1
       /\ Cardinality({k \in DOMAIN trace' :
                         /\ trace'[k].t = "op"
                         /\ trace'[k].op = "addLog"}) = 1
       /\ nextEntry' = nextEntry + 1]_vars

(* C33: render consistency.  In every state of an initialized manager the  *)
(* renderer's visible list is the store's buffer restricted to the active  *)
(* filter set, in buffer order.                                            *)
C33_RenderConsistency ==
  mgrs[Mgr].isInit =>
    rends[mgrs[Mgr].rend].rendered =
      SelectEntries(stores[mgrs[Mgr].store].logs,
                    rends[mgrs[Mgr].rend].filters)

(* C34: while the capturer is stopped, no error event of any kind (global  *)
(* error, unhandled rejection, resource-load failure) invokes one of its   *)
(* registered callbacks.                                                   *)
C34_SilentAfterStop ==
  [][(/\ RetOp(ret') \in {"onerror", "onunhandledrejection", "resourceError"}
      /\ ~caps[TheCapturer].isActive) =>
       \A k \in DOMAIN trace' :
         trace'[k].t = "captured" => trace'[k].cbs = <<>>]_vars

(* C35: while the capturer is active, one resource-load failure is         *)
(* captured once and notifies every registered callback exactly once,      *)
(* however many start()/stop() cycles came before.                         *)
C35_ResourceOnce ==
  [][(RetOp(ret') = "resourceError" /\ caps[TheCapturer].isActive) =>
       /\ Cardinality({k \in DOMAIN trace' : trace'[k].t = "captured"}) = 1
       /\ \A n \in DOMAIN caps[TheCapturer].callbacks :
            caps[TheCapturer].callbacks[n].k = "probe" =>
              Cardinality({k \in DOMAIN trace' :
                             /\ trace'[k].t = "cb"
                             /\ trace'[k].who = caps[TheCapturer].callbacks[n]})
                = 1]_vars

(* C36: multi-instance restoration.  When no constructed interceptor is    *)
(* intercepting, a console call enters no interceptor's wrapper or handler *)
(* and behaves as the method installed before any of them started: the     *)
(* host's method runs once with the call's arguments.                      *)
C36_MultiRestore ==
  [][(/\ RetOp(ret') = "console"
      /\ \A i \in DOMAIN icpts : ~icpts[i].isIntercepting) =>
       /\ \A k \in DOMAIN trace' : trace'[k].t \notin {"console", "call", "cb"}
       /\ Cardinality({k \in DOMAIN trace' : trace'[k].t = "native"}) = 1]_vars

(* C37: capture while active.  Every console call is handled exactly once  *)
(* by every interceptor that reports isIntercepting() = true, and          *)
(* delivered exactly once to each of its callbacks, whatever other         *)
(* interceptors were started or stopped before.                            *)
C37_CaptureWhileActive ==
  [][RetOp(ret') = "console" =>
       \A i \in DOMAIN icpts :
         icpts[i].isIntercepting =>
           /\ Cardinality({k \in DOMAIN trace' :
                             trace'[k].t = "call" /\ trace'[k].i = i}) = 1
           /\ \A n \in DOMAIN icpts[i].callbacks :
                Cardinality({k \in DOMAIN trace' :
                               /\ trace'[k].t = "cb"
                               /\ trace'[k].who = icpts[i].callbacks[n]}) = 1]_vars

IsSuffix(a, b) ==
  /\ Len(a) <= Len(b)
  /\ a = SubSeq(b, Len(b) - Len(a) + 1, Len(b))

(* C38: every step of a store with a bound of at least 1 (addLog,          *)
(* clearLogs, setMaxLogs up or down, console calls that feed it) leaves a  *)
(* buffer no longer than the current bound that is a contiguous suffix of  *)
(* the buffer before the step followed by the entries added during the     *)
(* step, or of the entries added during the step alone when the step is    *)
(* clearLogs: by induction a contiguous suffix of the entries added since  *)
(* the last clearLogs, each entry as it was added and in the order added.  *)
C38_SuffixOfAdded ==
  [][LET st   == stores[TheStore]
         st2  == stores'[TheStore]
         adds == AddedDuring(trace')
     IN /\ st2.maxLogs >= 1
        /\ Len(st2.logs) <= st2.maxLogs
        /\ IF RetOp(ret') = "store.clearLogs"
           THEN IsSuffix(st2.logs, adds)
           ELSE IsSuffix(st2.logs, st.logs \o adds)]_vars

C38_Witness ==
  /\ RetOp(ret) = "store.setMaxLogs"
  /\ RetExc(ret) = "none"
  /\ stores[TheStore].maxLogs = 1
  /\ Len(stores[TheStore].logs) = 1
  /\ stores[TheStore].logs[1].id > 1
  /\ \E k \in DOMAIN trace : trace[k].t = "op" /\ trace[k].op = "addLog"

(* The two states of a manager m, read in the page p (the heaps and the    *)
(* document).                                                              *)
Page ==
  [icpts |-> icpts, caps |-> caps, rends |-> rends, body |-> body,
   style |-> style]

Uninitialized(m, p) ==
  /\ ~m.isInit
  /\ m.icpt = 0 /\ m.store = 0 /\ m.rend = 0 /\ m.cap = 0
  /\ p.body = <<>>
  /\ p.style = "none"

Initialized(m, p) ==
  /\ m.isInit
  /\ m.icpt # 0 /\ m.store # 0 /\ m.rend # 0 /\ m.cap # 0
  /\ p.icpts[m.icpt].isIntercepting
  /\ p.caps[m.cap].isActive
  /\ p.rends[m.rend].elements
  /\ p.body = <<m.rend>>

C40_LastDeliveredIsBuffer ==
  (RetOp(ret) \in {"store.addLog", "store.clearLogs", "store.setMaxLogs"}
     /\ RetExc(ret) = "none") =>
    \A n \in DOMAIN stores[TheStore].listeners :
      LET runs == {k \in DOMAIN trace :
                     /\ trace[k].t = "sub"
                     /\ trace[k].who = stores[TheStore].listeners[n]}
      IN \A k \in runs :
           (\A j \in runs : j <= k) => trace[k].logs = stores[TheStore].logs

====
